---- MODULE Spec2Model ----
(***************************************************************************)
(* A model of improver.nbhood.recursive_filter.RecursiveFilter.            *)
(*                                                                         *)
(* Numbers.  Smoothing coefficients are held as integer tenths: the value  *)
(* k stands for k / CoefDen, so that "coefficient > 0.5" is 2 * k >        *)
(* CoefDen.  Grid cells are integers (fixed point); the right-hand side of *)
(* a recurrence assignment is computed exactly and stored floored to the   *)
(* cell resolution.  Floating-point rounding inside the expression is not  *)
(* modelled.  NaN is a reserved cell value that every arithmetic operation *)
(* propagates.  Coordinate points are integers in thousandths of the       *)
(* coordinate unit, which makes numpy's allclose tolerance an integer      *)
(* comparison.                                                             *)
(*                                                                         *)
(* Arrays are 0-based functions grid[r][c], r over axis 0 (y) and c over   *)
(* axis 1 (x), as cube.slices([y, x]) yields them.                         *)
(***************************************************************************)
EXTENDS Integers, Sequences, FiniteSets, TLC

VARIABLES
    pc,                        \* position of the caller / of process
    error,                     \* kind of the exception raised, "none" if none
    warned,                    \* a UserWarning was emitted by __init__
    iterations,                \* self.iterations
    edge_width,                \* self.edge_width
    re_mask,                   \* self.re_mask
    cube,                      \* process argument: sequence of 2-D slices
    smoothing_coefficients_x,  \* process argument, later its padded version
    smoothing_coefficients_y,  \* process argument, later its padded version
    mask_cube,                 \* process argument (None or a mask cube)
    supplied_mask,             \* the data mask_cube held when process was called
    slice_index,               \* number of slices taken from cube.slices
    output,                    \* the slice being worked on (its data array)
    mask,                      \* mask of the slice being worked on
    nan_array,                 \* nan_array of the slice being worked on
    iteration,                 \* completed iterations of the loop in _run_recursion
    passes,                    \* names of the passes run on the current slice
    grid_in,                   \* argument of a function that is called on its own
    grid_out,                  \* what that function returned
    init_args,                 \* the arguments __init__ was called with
    recursed_cube,             \* iris.cube.CubeList of processed slices
    new_cube,                  \* the value process returns
    npoints,                   \* argument of diamond_square
    terrain,                   \* the terrain array of diamond_square
    step                       \* steps of the loop of diamond_square done

vars == <<pc, error, warned, iterations, edge_width, re_mask, cube,
          smoothing_coefficients_x, smoothing_coefficients_y, mask_cube,
          supplied_mask, slice_index, output, mask, nan_array, iteration, passes, grid_in,
          grid_out, init_args, recursed_cube, new_cube, npoints, terrain,
          step>>

instance == <<warned, iterations, edge_width, re_mask, init_args>>
arguments == <<cube, smoothing_coefficients_x, smoothing_coefficients_y, mask_cube,
               supplied_mask>>
direct == <<grid_in, grid_out>>
synthetic == <<npoints, terrain, step>>

(***************************************************************************)
(* Bounds of the model.                                                    *)
(***************************************************************************)
MaxIterations == 3
MaxEdgeWidth == 1
MaxSlices == 2
Ny == 2
Nx == 3

(***************************************************************************)
(* Values.                                                                 *)
(***************************************************************************)
None == -1000000
NaN == -2000000
CoefDen == 10
RtolInv == 100000
Spacing == 2000000

Abs(v) == IF v < 0 THEN -v ELSE v

isnan(v) == v = NaN

Rows(grid) == Cardinality(DOMAIN grid)
Cols(grid) == Cardinality(DOMAIN grid[0])
Shape(grid, axis) == IF axis = 0 THEN Rows(grid) ELSE Cols(grid)

Full(ny, nx, v) == [r \in 0..(ny - 1) |-> [c \in 0..(nx - 1) |-> v]]
SetCell(grid, r, c, v) == [grid EXCEPT ![r][c] = v]
Cells(grid) == {<<r, c>> : r \in DOMAIN grid, c \in DOMAIN grid[0]}

(***************************************************************************)
(* Symmetric halo: pad(grid, margin) extends the grid by reflection about  *)
(* its edges (edge value repeated), crop is its inverse.                   *)
(***************************************************************************)
SymIndex(j, n) ==
    LET m == (j + 2 * n * (Abs(j) + 1)) % (2 * n)
    IN IF m < n THEN m ELSE 2 * n - 1 - m

pad_cube_with_halo(grid, width_x, width_y) ==
    [r \in 0..(Rows(grid) + 2 * width_y - 1) |->
        [c \in 0..(Cols(grid) + 2 * width_x - 1) |->
            grid[SymIndex(r - width_y, Rows(grid))][SymIndex(c - width_x, Cols(grid))]]]

remove_halo_from_cube(grid, width_x, width_y) ==
    [r \in 0..(Rows(grid) - 2 * width_y - 1) |->
        [c \in 0..(Cols(grid) - 2 * width_x - 1) |->
            grid[r + width_y][c + width_x]]]

(***************************************************************************)
(* The recurrence.  Each loop runs its steps in order on the array the     *)
(* step before left behind; the array after a step is bound as a value     *)
(* (updated) before the loop goes on.                                      *)
(***************************************************************************)
\* variant of Blend: the previous cell is added with weight coefficient
\* and the cell keeps its full weight
BlendUnnormalised(coefficient, a, b) ==
    IF isnan(a) \/ isnan(b) THEN NaN
    ELSE (CoefDen * a + coefficient * b) \div CoefDen

\* variant: (1.0 + coefficient) * a - coefficient * b
BlendExtrapolating(coefficient, a, b) ==
    IF isnan(a) \/ isnan(b) THEN NaN
    ELSE ((CoefDen + coefficient) * a - coefficient * b) \div CoefDen

\* (1.0 - coefficient) * a + coefficient * b
Blend(coefficient, a, b) ==
    IF isnan(a) \/ isnan(b) THEN NaN
    ELSE ((CoefDen - coefficient) * a + coefficient * b) \div CoefDen

\* variant: the weights of the two terms exchanged
ForwardStepSwapped(grid, smoothing_coefficients, axis, i) ==
    IF axis = 0
    THEN [grid EXCEPT ![i] = [c \in DOMAIN grid[i] |->
             Blend(smoothing_coefficients[i - 1][c], grid[i - 1][c], grid[i][c])]]
    ELSE [r \in DOMAIN grid |-> [grid[r] EXCEPT ![i] =
             Blend(smoothing_coefficients[r][i - 1], grid[r][i - 1], grid[r][i])]]

ForwardStep(grid, smoothing_coefficients, axis, i) ==
    IF axis = 0
    THEN [grid EXCEPT ![i] = [c \in DOMAIN grid[i] |->
             Blend(smoothing_coefficients[i - 1][c], grid[i][c], grid[i - 1][c])]]
    ELSE [r \in DOMAIN grid |-> [grid[r] EXCEPT ![i] =
             Blend(smoothing_coefficients[r][i - 1], grid[r][i], grid[r][i - 1])]]

RECURSIVE ForwardLoop(_, _, _, _)
ForwardLoop(grid, smoothing_coefficients, axis, i) ==
    IF i >= Shape(grid, axis) THEN grid
    ELSE CHOOSE done \in
             {ForwardLoop(updated, smoothing_coefficients, axis, i + 1) :
                 updated \in {ForwardStep(grid, smoothing_coefficients, axis, i)}} : TRUE

_recurse_forward(grid, smoothing_coefficients, axis) ==
    CHOOSE done \in {ForwardLoop(g, smoothing_coefficients, axis, 1) :
                        g \in {grid}} : TRUE

\* variant: the coefficient of the forward pass, C[i - 1] (C[0] at line 0)
BackwardStepForwardCoefficient(grid, smoothing_coefficients, axis, i) ==
    LET k == IF i = 0 THEN 0 ELSE i - 1
    IN IF axis = 0
       THEN [grid EXCEPT ![i] = [c \in DOMAIN grid[i] |->
                Blend(smoothing_coefficients[k][c], grid[i][c], grid[i + 1][c])]]
       ELSE [r \in DOMAIN grid |-> [grid[r] EXCEPT ![i] =
                Blend(smoothing_coefficients[r][k], grid[r][i], grid[r][i + 1])]]

BackwardStep(grid, smoothing_coefficients, axis, i) ==
    IF axis = 0
    THEN [grid EXCEPT ![i] = [c \in DOMAIN grid[i] |->
             Blend(smoothing_coefficients[i][c], grid[i][c], grid[i + 1][c])]]
    ELSE [r \in DOMAIN grid |-> [grid[r] EXCEPT ![i] =
             Blend(smoothing_coefficients[r][i], grid[r][i], grid[r][i + 1])]]

RECURSIVE BackwardLoop(_, _, _, _)
BackwardLoop(grid, smoothing_coefficients, axis, i) ==
    IF i < 0 THEN grid
    ELSE CHOOSE done \in
             {BackwardLoop(updated, smoothing_coefficients, axis, i - 1) :
                 updated \in {BackwardStep(grid, smoothing_coefficients, axis, i)}} : TRUE

\* variant: the backward loop starts one line late, at lim - 3
_recurse_backward_short(grid, smoothing_coefficients, axis) ==
    CHOOSE done \in {BackwardLoop(g, smoothing_coefficients, axis,
                                  Shape(g, axis) - 3) : g \in {grid}} : TRUE

_recurse_backward(grid, smoothing_coefficients, axis) ==
    CHOOSE done \in {BackwardLoop(g, smoothing_coefficients, axis,
                                  Shape(g, axis) - 2) : g \in {grid}} : TRUE

\* numpy can evaluate a pass: one coefficient line per step along the axis,
\* and coefficient lines as long as the grid lines they are combined with.
Conforms(grid, smoothing_coefficients, axis) ==
    /\ Shape(smoothing_coefficients, axis) >= Shape(grid, axis) - 1
    /\ Shape(smoothing_coefficients, 1 - axis) = Shape(grid, 1 - axis)

(***************************************************************************)
(* RecursiveFilter.__init__                                                *)
(***************************************************************************)
\* variant of InitError: only a negative iterations is refused
InitErrorNegativeOnly(its) ==
    IF its # None /\ its < 0 THEN "config" ELSE "none"

\* the outcome of the checks of __init__: the exception raised, if any
InitError(its) ==
    IF its # None /\ its < 1 THEN "config" ELSE "none"

\* variant of InitWarns: the warning starts one iteration later
InitWarnsAboveThree(its) == its # None /\ its > 3

InitWarns(its) == its # None /\ its > 2

Construct(its, ew, rm) ==
    /\ pc = "new"
    /\ IF InitError(its) # "none"
       THEN /\ pc' = "raised"
            /\ error' = InitError(its)
            /\ UNCHANGED <<warned, iterations, edge_width, re_mask>>
       ELSE /\ warned' = InitWarns(its)
            /\ iterations' = its
            /\ edge_width' = ew
            /\ re_mask' = rm
            /\ pc' = "constructed"
            /\ error' = "none"
    /\ init_args' = [iterations |-> its, edge_width |-> ew, re_mask |-> rm]
    /\ UNCHANGED <<synthetic, arguments, direct, slice_index, output, mask, nan_array,
                   iteration, passes, recursed_cube, new_cube>>

(***************************************************************************)
(* Coordinates and RecursiveFilter._validate_smoothing_coefficients        *)
(***************************************************************************)
\* np.allclose(a, b) for equally long a and b: |a - b| <= atol + rtol * |b|
\* with atol = 1e-8 and rtol = 1e-5.  On points held in thousandths this is
\* RtolInv * |a - b| <= 1 + |b|, and for integers |a - b| <= (1 + |b|) \div RtolInv.
allclose(a, b) ==
    \A i \in 1..Len(a) : Abs(a[i] - b[i]) <= (1 + Abs(b[i])) \div RtolInv

\* variant of mean_points: the left point of each pair, points[:-1]
mean_points_left(points) ==
    [i \in 1..(Len(points) - 1) |-> points[i]]

\* (points[1:] + points[:-1]) / 2
mean_points(points) ==
    [i \in 1..(Len(points) - 1) |-> (points[i + 1] + points[i]) \div 2]

coord(c, axis) == IF axis = "x" THEN c.x ELSE c.y

\* variant of name_axis: any name but the y one is taken for the x one
name_axis_lenient(name) ==
    IF name = "smoothing_coefficient_y" THEN "y" ELSE "x"

name_axis(name) ==
    IF name = "smoothing_coefficient_x" THEN "x"
    ELSE IF name = "smoothing_coefficient_y" THEN "y"
    ELSE "unknown"

other_axis(axis) == IF axis = "x" THEN "y" ELSE "x"

smoothing_points_ok(cube_format, smoothing_coefficients_cube, smoothing_axis) ==
    /\ Len(coord(smoothing_coefficients_cube, smoothing_axis))
          = Len(mean_points(coord(cube_format, smoothing_axis)))
    /\ allclose(coord(smoothing_coefficients_cube, smoothing_axis),
                mean_points(coord(cube_format, smoothing_axis)))

non_smoothing_points_ok(cube_format, smoothing_coefficients_cube, non_smoothing_axis) ==
    /\ Len(coord(smoothing_coefficients_cube, non_smoothing_axis))
          = Len(coord(cube_format, non_smoothing_axis))
    /\ allclose(coord(smoothing_coefficients_cube, non_smoothing_axis),
                coord(cube_format, non_smoothing_axis))

\* the exception _validate_smoothing_coefficients raises, "none" if it returns
_validate_smoothing_coefficients(cube_format, smoothing_coefficients_cube) ==
    LET smoothing_axis == name_axis(smoothing_coefficients_cube.name)
    IN IF smoothing_axis = "unknown" THEN "identity"
       ELSE IF ~smoothing_points_ok(cube_format, smoothing_coefficients_cube,
                                    smoothing_axis)
            THEN "alignment"
       ELSE IF ~non_smoothing_points_ok(cube_format, smoothing_coefficients_cube,
                                        other_axis(smoothing_axis))
            THEN "alignment"
       ELSE "none"

\* variant of over_half: (smoothing_coefficient.data > 0.5).all()
over_half_all(smoothing_coefficient) ==
    \A rc \in Cells(smoothing_coefficient.data) :
        2 * smoothing_coefficient.data[rc[1]][rc[2]] > CoefDen

\* (smoothing_coefficient.data > 0.5).any()
over_half(smoothing_coefficient) ==
    \E rc \in Cells(smoothing_coefficient.data) :
        2 * smoothing_coefficient.data[rc[1]][rc[2]] > CoefDen

_set_smoothing_coefficients(ew, smoothing_coefficients_cube) ==
    [smoothing_coefficients_cube EXCEPT
        !.data = pad_cube_with_halo(@, 2 * ew, 2 * ew)]

(***************************************************************************)
(* Inputs of process.                                                      *)
(***************************************************************************)
XPoints == [i \in 1..Nx |-> (i - 1) * Spacing]
YPoints == [j \in 1..Ny |-> (j + 4) * Spacing]
CubeCoords == [x |-> XPoints, y |-> YPoints]

\* one 2-D slice of the input cube: data is the raw array, masked tells
\* whether cube.data is a numpy MaskedArray and datamask is then its mask
SliceOf(p) ==
    CASE p = 0 -> [data     |-> Full(Ny, Nx, 1000),
                   masked   |-> FALSE,
                   datamask |-> Full(Ny, Nx, FALSE)]
      [] p = 1 -> [data     |-> SetCell(Full(Ny, Nx, 0), 0, 0, 8000),
                   masked   |-> FALSE,
                   datamask |-> Full(Ny, Nx, FALSE)]
      [] p = 2 -> [data     |-> SetCell(SetCell(Full(Ny, Nx, 1000), 0, 1, NaN),
                                        Ny - 1, Nx - 1, 4000),
                   masked   |-> FALSE,
                   datamask |-> Full(Ny, Nx, FALSE)]
      [] OTHER -> [data     |-> SetCell(Full(Ny, Nx, 2000), Ny - 1, 0, 6000),
                   masked   |-> TRUE,
                   datamask |-> SetCell(Full(Ny, Nx, FALSE), Ny - 1, 0, TRUE)]

CubeOf(n, base) ==
    [x |-> XPoints, y |-> YPoints,
     slices |-> [k \in 1..n |-> SliceOf((base + k - 1) % 4)]]

Cubes == {CubeOf(n, base) : n \in 1..MaxSlices, base \in 0..3}

\* mask_cube: None (the empty tuple here) or a cube of 1 (valid) and 0
MaskCubes == {<<>>, SetCell(Full(Ny, Nx, 1), Ny - 1, Nx - 1, 0)}

\* the points a coefficient cube for smoothing along `axis` should have
GoodPoints(axis, on) ==
    IF on = axis THEN mean_points(coord(CubeCoords, on))
    ELSE coord(CubeCoords, on)

ShiftFirst(points, d) == [points EXCEPT ![1] = @ + d]

GoodField(name, axis, k) ==
    [name |-> name,
     x    |-> GoodPoints(axis, "x"),
     y    |-> GoodPoints(axis, "y"),
     data |-> Full(Len(GoodPoints(axis, "y")), Len(GoodPoints(axis, "x")), k)]

AxisName(axis) ==
    IF axis = "x" THEN "smoothing_coefficient_x" ELSE "smoothing_coefficient_y"

ShiftOwn(f, axis, d) ==
    IF axis = "x" THEN [f EXCEPT !.x = ShiftFirst(@, d)]
    ELSE [f EXCEPT !.y = ShiftFirst(@, d)]

\* the coefficient cubes offered for one argument of process
Fields(axis) ==
    LET good == GoodField(AxisName(axis), axis, 3)
    IN [ok       |-> good,
        tol      |-> ShiftOwn(GoodField(AxisName(axis), axis, 5), axis, 5),
        zero     |-> [good EXCEPT !.data = SetCell(@, 0, 0, 0)],
        negative |-> [good EXCEPT !.data = SetCell(@, 0, 0, -2)],
        high     |-> [good EXCEPT !.data = SetCell(@, 0, 0, 6)],
        off      |-> ShiftOwn(good, axis, 1000),
        misnamed |-> GoodField("air_temperature", axis, 3),
        swapped  |-> GoodField(AxisName(other_axis(axis)), other_axis(axis), 3)]

FieldKinds == {"ok", "tol", "zero", "negative", "high", "off", "misnamed", "swapped"}

\* the (x, y) argument pairs: every kind against a good partner, and the
\* pairs in which both arguments are at fault
CoefPairs ==
    {<<Fields("x")[k], Fields("y").ok>> : k \in FieldKinds}
    \cup {<<Fields("x").ok, Fields("y")[k]>> : k \in FieldKinds}
    \cup {<<Fields("x")[k], Fields("y").misnamed>> : k \in {"off", "high", "swapped"}}
    \cup {<<Fields("x").misnamed, Fields("y")[k]>> : k \in {"off", "high"}}
    \cup {<<Fields("x").swapped, Fields("y").swapped>>}

IterationsValues == {None} \cup (-1..MaxIterations)

(***************************************************************************)
(* RecursiveFilter.set_up_cubes                                            *)
(***************************************************************************)
\* variant of set_up_cubes: the data under the mask is not set to 0 (line
\* 141 left out)
set_up_cubes_unzeroed(sl, mask_arg) ==
    LET ones    == Full(Rows(sl.data), Cols(sl.data), 1)
        given   == mask_arg # <<>>
        mask0   == IF given THEN mask_arg ELSE ones
        Own(r, c) == IF sl.datamask[r][c] THEN 0 ELSE mask0[r][c]
        mask1   == IF sl.masked THEN [r \in DOMAIN mask0 |-> [c \in DOMAIN mask0[r] |-> Own(r, c)]] ELSE mask0
        IsNan(r, c) == isnan(sl.data[r][c])
        nans    == [r \in DOMAIN sl.data |-> [c \in DOMAIN sl.data[r] |-> IsNan(r, c)]]
        NoNan(r, c) == IF nans[r][c] THEN 0 ELSE mask1[r][c]
        mask2   == [r \in DOMAIN mask1 |-> [c \in DOMAIN mask1[r] |-> NoNan(r, c)]]
        Zeroed(r, c) == IF nans[r][c] THEN 0 ELSE sl.data[r][c]
    IN [cube      |-> [r \in DOMAIN sl.data |-> [c \in DOMAIN sl.data[r] |-> Zeroed(r, c)]],
        mask      |-> mask2,
        nan_array |-> nans,
        mask_cube |-> IF given THEN mask1 ELSE mask_arg]

\* variant: line 138 (mask.data[nan_array] = 0) left out
set_up_cubes_nan_valid(sl, mask_arg) ==
    LET ones    == Full(Rows(sl.data), Cols(sl.data), 1)
        given   == mask_arg # <<>>
        mask0   == IF given THEN mask_arg ELSE ones
        Own(r, c) == IF sl.datamask[r][c] THEN 0 ELSE mask0[r][c]
        mask1   == IF sl.masked THEN [r \in DOMAIN mask0 |-> [c \in DOMAIN mask0[r] |-> Own(r, c)]] ELSE mask0
        IsNan(r, c) == isnan(sl.data[r][c])
        nans    == [r \in DOMAIN sl.data |-> [c \in DOMAIN sl.data[r] |-> IsNan(r, c)]]
        Zeroed(r, c) == IF nans[r][c] \/ mask1[r][c] = 0 THEN 0 ELSE sl.data[r][c]
    IN [cube      |-> [r \in DOMAIN sl.data |-> [c \in DOMAIN sl.data[r] |-> Zeroed(r, c)]],
        mask      |-> mask1,
        nan_array |-> nans,
        mask_cube |-> IF given THEN mask1 ELSE mask_arg]

\* Returns the zeroed data, the mask and nan_array.  With a mask_cube the
\* mask is that very cube, so the write of the slice's own mask into
\* mask.data (line 131) is a write into the caller's mask_cube; from
\* iris.util.squeeze on, mask is a copy.
set_up_cubes(sl, mask_arg) ==
    LET ones    == Full(Rows(sl.data), Cols(sl.data), 1)
        given   == mask_arg # <<>>
        mask0   == IF given THEN mask_arg ELSE ones
        Own(r, c) == IF sl.datamask[r][c] THEN 0 ELSE mask0[r][c]
        mask1   == IF sl.masked THEN [r \in DOMAIN mask0 |-> [c \in DOMAIN mask0[r] |-> Own(r, c)]] ELSE mask0
        IsNan(r, c) == isnan(sl.data[r][c])
        nans    == [r \in DOMAIN sl.data |-> [c \in DOMAIN sl.data[r] |-> IsNan(r, c)]]
        NoNan(r, c) == IF nans[r][c] THEN 0 ELSE mask1[r][c]
        mask2   == [r \in DOMAIN mask1 |-> [c \in DOMAIN mask1[r] |-> NoNan(r, c)]]
        Zeroed(r, c) == IF nans[r][c] \/ mask2[r][c] = 0 THEN 0 ELSE sl.data[r][c]
    IN [cube      |-> [r \in DOMAIN sl.data |-> [c \in DOMAIN sl.data[r] |-> Zeroed(r, c)]],
        mask      |-> mask2,
        nan_array |-> nans,
        mask_cube |-> IF given THEN mask1 ELSE mask_arg]

(***************************************************************************)
(* RecursiveFilter.process                                                 *)
(***************************************************************************)
Raise(kind) ==
    /\ pc' = "raised"
    /\ error' = kind

ProcessCall(c, fx, fy, m) ==
    /\ pc = "constructed"
    /\ cube' = c
    /\ smoothing_coefficients_x' = fx
    /\ smoothing_coefficients_y' = fy
    /\ mask_cube' = m
    /\ supplied_mask' = m
    /\ pc' = "range_check"
    /\ UNCHANGED <<synthetic, instance, direct, error, slice_index, output, mask,
                   nan_array, iteration, passes, recursed_cube,
                   new_cube>>

\* lines 430-439
RangeCheck ==
    /\ pc = "range_check"
    /\ IF over_half(smoothing_coefficients_x) \/ over_half(smoothing_coefficients_y)
       THEN Raise("range")
       ELSE pc' = "validate_x" /\ UNCHANGED error
    /\ UNCHANGED <<synthetic, instance, arguments, direct, slice_index, output, mask,
                   nan_array, iteration, passes, recursed_cube,
                   new_cube>>

\* lines 440-444
ValidateX ==
    /\ pc = "validate_x"
    /\ LET e == _validate_smoothing_coefficients(cube, smoothing_coefficients_x)
       IN IF e # "none"
          THEN Raise(e) /\ UNCHANGED smoothing_coefficients_x
          ELSE /\ smoothing_coefficients_x' =
                     _set_smoothing_coefficients(edge_width, smoothing_coefficients_x)
               /\ pc' = "validate_y"
               /\ UNCHANGED error
    /\ UNCHANGED <<synthetic, instance, direct, cube, smoothing_coefficients_y,
                   mask_cube, supplied_mask, slice_index, output, mask, nan_array,
                   iteration, passes, recursed_cube, new_cube>>

\* variant of ValidateY: the error of the y cube is noted and the slices
\* are filtered all the same
ValidateYDeferred ==
    /\ pc = "validate_y"
    /\ error' = _validate_smoothing_coefficients(cube, smoothing_coefficients_y)
    /\ smoothing_coefficients_y' =
           _set_smoothing_coefficients(edge_width, smoothing_coefficients_y)
    /\ pc' = "slices"
    /\ UNCHANGED <<synthetic, instance, direct, cube, smoothing_coefficients_x,
                   mask_cube, supplied_mask, slice_index, output, mask, nan_array,
                   iteration, passes, recursed_cube, new_cube>>

\* lines 445-450
ValidateY ==
    /\ pc = "validate_y"
    /\ LET e == _validate_smoothing_coefficients(cube, smoothing_coefficients_y)
       IN IF e # "none"
          THEN Raise(e) /\ UNCHANGED smoothing_coefficients_y
          ELSE /\ smoothing_coefficients_y' =
                     _set_smoothing_coefficients(edge_width, smoothing_coefficients_y)
               /\ pc' = "slices"
               /\ UNCHANGED error
    /\ UNCHANGED <<synthetic, instance, direct, cube, smoothing_coefficients_x,
                   mask_cube, supplied_mask, slice_index, output, mask, nan_array,
                   iteration, passes, recursed_cube, new_cube>>

\* variant of NextSlice: the slices are taken last to first
NextSliceReversed ==
    /\ pc = "slices"
    /\ IF slice_index < Len(cube.slices)
       THEN /\ slice_index' = slice_index + 1
            /\ output' = cube.slices[Len(cube.slices) - slice_index]
            /\ pc' = "set_up"
       ELSE /\ pc' = "merge"
            /\ UNCHANGED <<slice_index, output>>
    /\ UNCHANGED <<synthetic, instance, arguments, direct, error, mask, nan_array,
                   iteration, passes, recursed_cube, new_cube>>

\* line 451: the next slice of cube.slices, or the end of the loop
NextSlice ==
    /\ pc = "slices"
    /\ IF slice_index < Len(cube.slices)
       THEN /\ slice_index' = slice_index + 1
            /\ output' = cube.slices[slice_index + 1]
            /\ pc' = "set_up"
       ELSE /\ pc' = "merge"
            /\ UNCHANGED <<slice_index, output>>
    /\ UNCHANGED <<synthetic, instance, arguments, direct, error, mask, nan_array,
                   iteration, passes, recursed_cube, new_cube>>

\* lines 456-457
SetUpCubes ==
    /\ pc = "set_up"
    /\ LET s == set_up_cubes(output, mask_cube)
       IN /\ output' = s.cube
          /\ mask' = s.mask
          /\ nan_array' = s.nan_array
          /\ mask_cube' = s.mask_cube
    /\ pc' = "pad"
    /\ UNCHANGED <<synthetic, instance, direct, error, cube, smoothing_coefficients_x,
                   smoothing_coefficients_y, supplied_mask, slice_index, iteration,
                   passes, recursed_cube, new_cube>>

\* variant of PadSlice: the halo is edge_width wide
PadSliceEdgeWidth ==
    /\ pc = "pad"
    /\ output' = pad_cube_with_halo(output, edge_width, edge_width)
    /\ iteration' = 0
    /\ passes' = <<>>
    /\ pc' = "recursion"
    /\ UNCHANGED <<synthetic, instance, arguments, direct, error, slice_index, mask,
                   nan_array, recursed_cube, new_cube>>

\* variant of PadSlice: the halo is filled with zeros instead of mirrored
PadSliceZeroHalo ==
    /\ pc = "pad"
    /\ output' =
          [r \in 0..(Rows(output) + 4 * edge_width - 1) |->
              [c \in 0..(Cols(output) + 4 * edge_width - 1) |->
                  IF /\ r - 2 * edge_width \in DOMAIN output
                     /\ c - 2 * edge_width \in DOMAIN output[0]
                  THEN output[r - 2 * edge_width][c - 2 * edge_width]
                  ELSE 0]]
    /\ iteration' = 0
    /\ passes' = <<>>
    /\ pc' = "recursion"
    /\ UNCHANGED <<synthetic, instance, arguments, direct, error, slice_index, mask,
                   nan_array, recursed_cube, new_cube>>

\* lines 459-461, and the entry of _run_recursion (lines 267-269)
PadSlice ==
    /\ pc = "pad"
    /\ output' = pad_cube_with_halo(output, 2 * edge_width, 2 * edge_width)
    /\ iteration' = 0
    /\ passes' = <<>>
    /\ pc' = "recursion"
    /\ UNCHANGED <<synthetic, instance, arguments, direct, error, slice_index, mask,
                   nan_array, recursed_cube, new_cube>>

(***************************************************************************)
(* RecursiveFilter._run_recursion, one action per pass.  A slice from      *)
(* cube.slices([y, x]) has y on axis 0 and x on axis 1.                    *)
(***************************************************************************)
x_index == 1
y_index == 0

\* variant of PassOrder: the y passes run before the x passes
PassOrderYFirst == <<"forward_y", "backward_y", "forward_x", "backward_x">>

\* the order of the four calls in the loop body (lines 272-283)
PassOrder == <<"forward_x", "backward_x", "forward_y", "backward_y">>

\* the array a pass is given: the local variable output (line 269)
PassInput == output

Pass(name, smoothing_coefficients, axis, result) ==
    /\ pc = "recursion"
    /\ iterations # None
    /\ iteration < iterations
    /\ PassOrder[Len(passes) - 4 * iteration + 1] = name
    /\ IF ~Conforms(PassInput, smoothing_coefficients.data, axis)
       THEN /\ Raise("broadcast")
            /\ UNCHANGED <<output, iteration, passes>>
       ELSE /\ output' = result
            /\ passes' = Append(passes, name)
            /\ iteration' = IF Len(passes') = 4 * (iteration + 1)
                            THEN iteration + 1 ELSE iteration
            /\ UNCHANGED <<pc, error>>
    /\ UNCHANGED <<synthetic, instance, arguments, direct, slice_index, mask, nan_array,
                   recursed_cube, new_cube>>

RecurseForwardX ==
    Pass("forward_x", smoothing_coefficients_x, x_index,
         _recurse_forward(PassInput, smoothing_coefficients_x.data, x_index))

RecurseBackwardX ==
    Pass("backward_x", smoothing_coefficients_x, x_index,
         _recurse_backward(PassInput, smoothing_coefficients_x.data, x_index))

RecurseForwardY ==
    Pass("forward_y", smoothing_coefficients_y, y_index,
         _recurse_forward(PassInput, smoothing_coefficients_y.data, y_index))

RecurseBackwardY ==
    Pass("backward_y", smoothing_coefficients_y, y_index,
         _recurse_backward(PassInput, smoothing_coefficients_y.data, y_index))

\* line 271 with self.iterations = None: range(None) raises TypeError
RangeOfNone ==
    /\ pc = "recursion"
    /\ iterations = None
    /\ Raise("type")
    /\ UNCHANGED <<synthetic, instance, arguments, direct, slice_index, output, mask,
                   nan_array, iteration, passes, recursed_cube,
                   new_cube>>

\* variant of ReMasked: NaN is not written back into the data (line 473
\* left out)
ReMaskedWithoutNaN(data) ==
    LET Invalid(r, c) == mask[r][c] = 0
    IN [data     |-> data,
        masked   |-> TRUE,
        datamask |-> [r \in DOMAIN data |-> [c \in DOMAIN data[r] |-> Invalid(r, c)]]]

\* variant of ReMasked: the mask is passed on as it is, without
\* np.logical_not
ReMaskedNotInverted(data) ==
    LET Restore(r, c) == IF nan_array[r][c] THEN NaN ELSE data[r][c]
        Valid(r, c) == mask[r][c] # 0
    IN [data     |-> [r \in DOMAIN data |-> [c \in DOMAIN data[r] |-> Restore(r, c)]],
        masked   |-> TRUE,
        datamask |-> [r \in DOMAIN data |-> [c \in DOMAIN data[r] |-> Valid(r, c)]]]

\* lines 469-478: the halo is removed, the slice re-masked and appended
ReMasked(data) ==
    LET Restore(r, c) == IF nan_array[r][c] THEN NaN ELSE data[r][c]
        Invalid(r, c) == mask[r][c] = 0
    IN [data     |-> [r \in DOMAIN data |-> [c \in DOMAIN data[r] |-> Restore(r, c)]],
        masked   |-> TRUE,
        datamask |-> [r \in DOMAIN data |-> [c \in DOMAIN data[r] |-> Invalid(r, c)]]]

\* variant of FinishSlice: the slice is re-masked whatever re_mask says
FinishSliceAlwaysReMask ==
    /\ pc = "recursion"
    /\ iterations # None
    /\ iteration >= iterations
    /\ LET data == remove_halo_from_cube(output, 2 * edge_width, 2 * edge_width)
       IN recursed_cube' = Append(recursed_cube, ReMasked(data))
    /\ pc' = "slices"
    /\ UNCHANGED <<synthetic, instance, arguments, direct, error, slice_index, output,
                   mask, nan_array, iteration, passes, new_cube>>

FinishSlice ==
    /\ pc = "recursion"
    /\ iterations # None
    /\ iteration >= iterations
    /\ LET data == remove_halo_from_cube(output, 2 * edge_width, 2 * edge_width)
           done == IF re_mask THEN ReMasked(data)
                   ELSE [data     |-> data,
                         masked   |-> FALSE,
                         datamask |-> Full(Rows(data), Cols(data), FALSE)]
       IN recursed_cube' = Append(recursed_cube, done)
    /\ pc' = "slices"
    /\ UNCHANGED <<synthetic, instance, arguments, direct, error, slice_index, output,
                   mask, nan_array, iteration, passes, new_cube>>

\* lines 480-483
Merge ==
    /\ pc = "merge"
    /\ new_cube' = recursed_cube
    /\ pc' = "returned"
    /\ UNCHANGED <<synthetic, instance, arguments, direct, error, slice_index, output,
                   mask, nan_array, iteration, passes, recursed_cube>>

(***************************************************************************)
(* The specification: a filter is constructed and process is called once.  *)
(***************************************************************************)
Init ==
    /\ pc = "new"
    /\ error = "none"
    /\ warned = FALSE
    /\ iterations = None
    /\ edge_width = None
    /\ re_mask = FALSE
    /\ cube = <<>>
    /\ smoothing_coefficients_x = <<>>
    /\ smoothing_coefficients_y = <<>>
    /\ mask_cube = <<>>
    /\ supplied_mask = <<>>
    /\ slice_index = 0
    /\ output = <<>>
    /\ mask = <<>>
    /\ nan_array = <<>>
    /\ iteration = 0
    /\ passes = <<>>
    /\ grid_in = <<>>
    /\ grid_out = <<>>
    /\ init_args = <<>>
    /\ recursed_cube = <<>>
    /\ new_cube = <<>>
    /\ npoints = 0
    /\ terrain = <<>>
    /\ step = 0

Next ==
    \/ \E its \in IterationsValues, ew \in 1..MaxEdgeWidth, rm \in BOOLEAN :
           Construct(its, ew, rm)
    \/ \E c \in Cubes, f \in CoefPairs, m \in MaskCubes :
           ProcessCall(c, f[1], f[2], m)
    \/ RangeCheck
    \/ ValidateX
    \/ ValidateY
    \/ NextSlice
    \/ SetUpCubes
    \/ PadSlice
    \/ RecurseForwardX
    \/ RecurseBackwardX
    \/ RecurseForwardY
    \/ RecurseBackwardY
    \/ RangeOfNone
    \/ FinishSlice
    \/ Merge

Spec == Init /\ [][Next]_vars

(***************************************************************************)
(* _validate_smoothing_coefficients called on its own: the coefficient     *)
(* cube's points are drawn around the points a valid cube would have.      *)
(***************************************************************************)
\* the largest |a - b| that np.allclose accepts against the reference b
Tolerance(b) == (1 + Abs(b)) \div RtolInv

\* no deviation, the largest accepted one, the smallest rejected one
Deviation(d, b) ==
    CASE d = 0 -> 0
      [] d = 1 -> Tolerance(b)
      [] OTHER -> Tolerance(b) + 1

PointVariants(good) ==
    {[i \in 1..Len(good) |-> good[i] + Deviation(ds[i], good[i])] :
        ds \in [1..Len(good) -> 0..2]}
    \cup {SubSeq(good, 1, Len(good) - 1), Append(good, good[Len(good)] + Spacing)}

ValidateFields ==
    {[name |-> n, x |-> px, y |-> py, data |-> <<>>] :
        n \in {"smoothing_coefficient_x"},
        px \in PointVariants(GoodPoints("x", "x")),
        py \in PointVariants(GoodPoints("x", "y"))}
    \cup {[name |-> n, x |-> px, y |-> py, data |-> <<>>] :
        n \in {"smoothing_coefficient_y"},
        px \in PointVariants(GoodPoints("y", "x")),
        py \in PointVariants(GoodPoints("y", "y"))}
    \cup {[name |-> n, x |-> px, y |-> GoodPoints("x", "y"), data |-> <<>>] :
        n \in {"air_temperature", "smoothing_coefficient"},
        px \in PointVariants(GoodPoints("x", "x"))}

InitValidate ==
    /\ pc = "validate_call"
    /\ cube = CubeCoords
    /\ smoothing_coefficients_x \in ValidateFields
    /\ error = "none"
    /\ warned = FALSE
    /\ iterations = None
    /\ edge_width = None
    /\ re_mask = FALSE
    /\ smoothing_coefficients_y = <<>>
    /\ mask_cube = <<>>
    /\ supplied_mask = <<>>
    /\ slice_index = 0
    /\ output = <<>>
    /\ mask = <<>>
    /\ nan_array = <<>>
    /\ iteration = 0
    /\ passes = <<>>
    /\ grid_in = <<>>
    /\ grid_out = <<>>
    /\ init_args = <<>>
    /\ recursed_cube = <<>>
    /\ new_cube = <<>>
    /\ npoints = 0
    /\ terrain = <<>>
    /\ step = 0

ValidateCall ==
    /\ pc = "validate_call"
    /\ error' = _validate_smoothing_coefficients(cube, smoothing_coefficients_x)
    /\ pc' = "validated"
    /\ UNCHANGED <<synthetic, instance, arguments, direct, slice_index, output, mask,
                   nan_array, iteration, passes, recursed_cube, new_cube>>

SpecValidate == InitValidate /\ [][ValidateCall]_vars

(***************************************************************************)
(* _recurse_forward and _recurse_backward called on their own, on a        *)
(* PassN x PassN grid.                                                     *)
(***************************************************************************)
PassN == 3

CoefValues == {<<1, 3, 5>>, <<2, 4, 5>>, <<0, 6, -2>>}

\* a coefficient array for recursion along axis, its values laid out by a, b, s
CoefGrid(axis, vals, a, b, s) ==
    [r \in 0..(IF axis = 0 THEN PassN - 2 ELSE PassN - 1) |->
        [c \in 0..(IF axis = 1 THEN PassN - 2 ELSE PassN - 1) |->
            vals[((a * r + b * c + s) % 3) + 1]]]

CoefGrids(axis) ==
    {CoefGrid(axis, vals, a, b, s) : vals \in CoefValues, a \in 0..2, b \in 0..2, s \in 0..2}

PassGrids ==
    {Full(PassN, PassN, v) : v \in {-7, 0, 5, 1000}}
    \cup {SetCell(Full(PassN, PassN, 0), r, c, 1000) : r \in 0..(PassN - 1), c \in 0..(PassN - 1)}
    \cup {[r \in 0..(PassN - 1) |-> [c \in 0..(PassN - 1) |-> 100 * (r * PassN + c) - 300]]}

InitPass ==
    /\ pc = "pass_call"
    /\ \E axis \in {0, 1} :
          grid_in \in {[grid |-> g, smoothing_coefficients |-> k, axis |-> axis] :
                          g \in PassGrids, k \in CoefGrids(axis)}
    /\ grid_out = <<>>
    /\ error = "none"
    /\ warned = FALSE
    /\ iterations = None
    /\ edge_width = None
    /\ re_mask = FALSE
    /\ cube = <<>>
    /\ smoothing_coefficients_x = <<>>
    /\ smoothing_coefficients_y = <<>>
    /\ mask_cube = <<>>
    /\ supplied_mask = <<>>
    /\ slice_index = 0
    /\ output = <<>>
    /\ mask = <<>>
    /\ nan_array = <<>>
    /\ iteration = 0
    /\ passes = <<>>
    /\ init_args = <<>>
    /\ recursed_cube = <<>>
    /\ new_cube = <<>>
    /\ npoints = 0
    /\ terrain = <<>>
    /\ step = 0

ForwardCall ==
    /\ pc = "pass_call"
    /\ grid_out' = _recurse_forward(grid_in.grid, grid_in.smoothing_coefficients,
                                    grid_in.axis)
    /\ passes' = <<"forward">>
    /\ pc' = "pass_done"
    /\ UNCHANGED <<synthetic, instance, arguments, error, grid_in, slice_index, output, mask,
                   nan_array, iteration, recursed_cube, new_cube>>

BackwardCall ==
    /\ pc = "pass_call"
    /\ grid_out' = _recurse_backward(grid_in.grid, grid_in.smoothing_coefficients,
                                     grid_in.axis)
    /\ passes' = <<"backward">>
    /\ pc' = "pass_done"
    /\ UNCHANGED <<synthetic, instance, arguments, error, grid_in, slice_index, output, mask,
                   nan_array, iteration, recursed_cube, new_cube>>

SpecPass == InitPass /\ [][ForwardCall \/ BackwardCall]_vars

(***************************************************************************)
(* improver.synthetic_data.diamond_square.  Terrain values are integers in *)
(* thousandths; an average is floored to that resolution.  A draw of       *)
(* random.uniform(-lim, lim) is one of -lim, 0 and lim, laid out over the  *)
(* cells by a pattern that each step chooses.                              *)
(***************************************************************************)
MaxPoints == 9

INIT_VAL == 5555500
CORNER_VALUES == <<-600, -800, 200, 1000>>
max_random == 1000

Patterns == 0..2

RECURSIVE Pow2(_)
Pow2(k) == IF k = 0 THEN 1 ELSE 2 * Pow2(k - 1)

\* variant: the logarithm rounded down
FloorLog2(m) == CHOOSE k \in 0..m : Pow2(k) <= m /\ Pow2(k + 1) > m

\* math.ceil(math.log2(m)) for m >= 1
CeilLog2(m) == CHOOSE k \in 0..m : Pow2(k) >= m /\ (k = 0 \/ Pow2(k - 1) < m)

\* terrain[i, j] with Python's negative indices
At(grid, i, j) ==
    grid[IF i < 0 THEN i + Rows(grid) ELSE i][IF j < 0 THEN j + Cols(grid) ELSE j]

\* math.log2 raises ValueError for an argument that is not positive
InitialiseError(points) == IF points - 1 < 1 THEN "domain" ELSE "none"

_initialise_terrain(points) ==
    LET n              == CeilLog2(points - 1)
        terrain_length == Pow2(n) + 1
        filled         == Full(terrain_length, terrain_length, INIT_VAL)
        last           == terrain_length - 1
    IN [terrain |-> SetCell(SetCell(SetCell(SetCell(filled,
                        0, 0, CORNER_VALUES[1]),
                        0, last, CORNER_VALUES[2]),
                        last, 0, CORNER_VALUES[3]),
                        last, last, CORNER_VALUES[4]),
        n       |-> n]

_get_midpoint_indices(i_diff, x, y) ==
    LET midpoint_x == i_diff * ((2 * x) + 1)
        midpoint_y == i_diff * ((2 * y) + 1)
    IN [midpoint_x |-> midpoint_x,
        midpoint_y |-> midpoint_y,
        x_lim_low  |-> midpoint_x - i_diff,
        x_lim_high |-> midpoint_x + i_diff,
        y_lim_low  |-> midpoint_y - i_diff,
        y_lim_high |-> midpoint_y + i_diff]

\* variant: the lower indices taken as x - i_diff and y - i_diff throughout
_get_diamond_indices_plain(x, y, i_diff, terrain_length) ==
    [x_lower  |-> x - i_diff,
     x_higher |-> IF x + i_diff >= terrain_length THEN i_diff ELSE x + i_diff,
     y_lower  |-> y - i_diff,
     y_higher |-> IF y + i_diff >= terrain_length THEN i_diff ELSE y + i_diff]

_get_diamond_indices(x, y, i_diff, terrain_length) ==
    [x_lower  |-> IF x >= i_diff THEN x - i_diff ELSE x - (i_diff + 1),
     x_higher |-> IF x + i_diff >= terrain_length THEN i_diff ELSE x + i_diff,
     y_lower  |-> IF y >= i_diff THEN y - i_diff ELSE y - (i_diff + 1),
     y_higher |-> IF y + i_diff >= terrain_length THEN i_diff ELSE y + i_diff]

\* the value random.uniform(-random_num_lim, random_num_lim) gives for the
\* cell (x, y) under the pattern p
Draw(p, x, y, random_num_lim) == (((x + 2 * y + p) % 3) - 1) * random_num_lim

_calculate_value(corner_vals, random_val) ==
    ((corner_vals[1] + corner_vals[2] + corner_vals[3] + corner_vals[4]) \div 4)
        + random_val

\* one pass of the body of the square-step loops, for the square (sq_x, sq_y)
SquareAssign(grid, i_diff, sq_x, sq_y, random_num_lim, p) ==
    LET m == _get_midpoint_indices(i_diff, sq_x, sq_y)
        corner_vals == <<At(grid, m.x_lim_low, m.y_lim_low),
                         At(grid, m.x_lim_low, m.y_lim_high),
                         At(grid, m.x_lim_high, m.y_lim_low),
                         At(grid, m.x_lim_high, m.y_lim_high)>>
    IN SetCell(grid, m.midpoint_x, m.midpoint_y,
               _calculate_value(corner_vals,
                   Draw(p, m.midpoint_x, m.midpoint_y, random_num_lim)))

\* the inner loop of the square step: sq_y over range(n_sq)
RECURSIVE SquareRow(_, _, _, _, _, _, _)
SquareRow(grid, n_sq, i_diff, random_num_lim, p, sq_x, sq_y) ==
    IF sq_y >= n_sq THEN grid
    ELSE CHOOSE done \in
             {SquareRow(g, n_sq, i_diff, random_num_lim, p, sq_x, sq_y + 1) :
                 g \in {SquareAssign(grid, i_diff, sq_x, sq_y,
                                     random_num_lim, p)}} : TRUE

\* the outer loop of the square step: sq_x over range(n_sq)
RECURSIVE SquareLoop(_, _, _, _, _, _)
SquareLoop(grid, n_sq, i_diff, random_num_lim, p, sq_x) ==
    IF sq_x >= n_sq THEN grid
    ELSE CHOOSE done \in
             {SquareLoop(g, n_sq, i_diff, random_num_lim, p, sq_x + 1) :
                 g \in {SquareRow(grid, n_sq, i_diff, random_num_lim, p,
                                  sq_x, 0)}} : TRUE

\* the edge point (x, y) is assigned only while it holds INIT_VAL
DiamondAssign(grid, x, y, i_diff, random_num_lim, p) ==
    IF At(grid, x, y) # INIT_VAL THEN grid
    ELSE LET q == _get_diamond_indices(x, y, i_diff, Rows(grid))
             corner_vals == <<At(grid, x, q.y_lower),
                              At(grid, x, q.y_higher),
                              At(grid, q.x_lower, y),
                              At(grid, q.x_higher, y)>>
         IN SetCell(grid, x, y,
                    _calculate_value(corner_vals, Draw(p, x, y, random_num_lim)))

\* variant: only the x_indices loop of the diamond step runs
EdgePointsXOnly(i_diff, sq_x, sq_y) ==
    LET m == _get_midpoint_indices(i_diff, sq_x, sq_y)
    IN <<<<m.x_lim_low, m.midpoint_y>>, <<m.x_lim_high, m.midpoint_y>>,
         <<m.x_lim_low, m.midpoint_y>>, <<m.x_lim_high, m.midpoint_y>>>>

\* the edge points of the square (sq_x, sq_y) in the order the loops take
\* them: x_indices at midpoint_y first, then y_indices at midpoint_x
EdgePoints(i_diff, sq_x, sq_y) ==
    LET m == _get_midpoint_indices(i_diff, sq_x, sq_y)
    IN <<<<m.x_lim_low, m.midpoint_y>>, <<m.x_lim_high, m.midpoint_y>>,
         <<m.midpoint_x, m.y_lim_low>>, <<m.midpoint_x, m.y_lim_high>>>>

\* the x_indices and y_indices loops of one square
DiamondSquare(grid, i_diff, random_num_lim, p, sq_x, sq_y) ==
    LET point == EdgePoints(i_diff, sq_x, sq_y)
        D(g, k) == DiamondAssign(g, point[k][1], point[k][2], i_diff,
                                 random_num_lim, p)
    IN CHOOSE done \in
           {D(g3, 4) : g3 \in {D(g2, 3) : g2 \in {D(g1, 2) :
               g1 \in {D(grid, 1)}}}} : TRUE

\* the inner loop of the diamond step: sq_y over range(n_sq)
RECURSIVE DiamondRow(_, _, _, _, _, _, _)
DiamondRow(grid, n_sq, i_diff, random_num_lim, p, sq_x, sq_y) ==
    IF sq_y >= n_sq THEN grid
    ELSE CHOOSE done \in
             {DiamondRow(g, n_sq, i_diff, random_num_lim, p, sq_x, sq_y + 1) :
                 g \in {DiamondSquare(grid, i_diff, random_num_lim, p,
                                      sq_x, sq_y)}} : TRUE

\* the outer loop of the diamond step: sq_x over range(n_sq)
RECURSIVE DiamondLoop(_, _, _, _, _, _)
DiamondLoop(grid, n_sq, i_diff, random_num_lim, p, sq_x) ==
    IF sq_x >= n_sq THEN grid
    ELSE CHOOSE done \in
             {DiamondLoop(g, n_sq, i_diff, random_num_lim, p, sq_x + 1) :
                 g \in {DiamondRow(grid, n_sq, i_diff, random_num_lim, p,
                                   sq_x, 0)}} : TRUE

_diamond_square_steps(grid, s, points, limit, p) ==
    LET n_sq              == Pow2(s)
        i_diff            == (Rows(grid) - 1) \div (n_sq * 2)
        sq_random_num_lim == limit \div (s + 1)
        d_random_num_lim  == limit \div (points - s)
    IN CHOOSE done \in
           {DiamondLoop(g, n_sq, i_diff, d_random_num_lim, p, 0) :
               g \in {SquareLoop(grid, n_sq, i_diff, sq_random_num_lim, p, 0)}} :
           TRUE

(***************************************************************************)
(* diamond_square(npoints), one action per statement of its body and one   *)
(* per iteration of its loop.                                              *)
(***************************************************************************)
StepsOf(points) == CeilLog2(points - 1)

InitialiseTerrain ==
    /\ pc = "terrain_call"
    /\ IF InitialiseError(npoints) # "none"
       THEN /\ pc' = "raised"
            /\ error' = InitialiseError(npoints)
            /\ UNCHANGED <<terrain, step>>
       ELSE /\ terrain' = _initialise_terrain(npoints).terrain
            /\ step' = 0
            /\ pc' = "terrain_steps"
            /\ UNCHANGED error
    /\ UNCHANGED <<npoints, instance, arguments, direct, slice_index, output,
                   mask, nan_array, iteration, passes, recursed_cube, new_cube>>

DiamondSquareStep ==
    /\ pc = "terrain_steps"
    /\ step < StepsOf(npoints)
    /\ \E p \in Patterns :
           terrain' = _diamond_square_steps(terrain, step, npoints, max_random, p)
    /\ step' = step + 1
    /\ UNCHANGED <<npoints, instance, arguments, direct, slice_index, output,
                   mask, nan_array, iteration, passes, recursed_cube, new_cube,
                   pc, error>>

ReturnTerrain ==
    /\ pc = "terrain_steps"
    /\ step >= StepsOf(npoints)
    /\ pc' = "terrain_returned"
    /\ UNCHANGED <<synthetic, instance, arguments, direct, slice_index, output,
                   mask, nan_array, iteration, passes, recursed_cube, new_cube,
                   error>>

InitDiamond ==
    /\ pc = "terrain_call"
    /\ npoints \in 1..MaxPoints
    /\ terrain = <<>>
    /\ step = 0
    /\ grid_in = <<>>
    /\ grid_out = <<>>
    /\ error = "none"
    /\ warned = FALSE
    /\ iterations = None
    /\ edge_width = None
    /\ re_mask = FALSE
    /\ cube = <<>>
    /\ smoothing_coefficients_x = <<>>
    /\ smoothing_coefficients_y = <<>>
    /\ mask_cube = <<>>
    /\ supplied_mask = <<>>
    /\ slice_index = 0
    /\ output = <<>>
    /\ mask = <<>>
    /\ nan_array = <<>>
    /\ iteration = 0
    /\ passes = <<>>
    /\ init_args = <<>>
    /\ recursed_cube = <<>>
    /\ new_cube = <<>>

SpecDiamond ==
    InitDiamond /\ [][InitialiseTerrain \/ DiamondSquareStep \/ ReturnTerrain]_vars

(***************************************************************************)
(* improver.synthetic_data.generate_terrain._set_initial_sea, called on    *)
(* its own on a SeaSide x SeaSide terrain.  Heights are in thousandths.    *)
(***************************************************************************)
SeaSide == 4

SEA_VALUE == -10
LAND_VALUE == 200000

\* values offered for each of the four corners
CornerChoices == {-800, -500, -300, 200, 500}

SeaTerrains ==
    {SetCell(SetCell(SetCell(SetCell(Full(SeaSide, SeaSide, LAND_VALUE),
         0, 0, a), 0, SeaSide - 1, b), SeaSide - 1, 0, c),
         SeaSide - 1, SeaSide - 1, d) :
        a \in CornerChoices, b \in CornerChoices,
        c \in CornerChoices, d \in CornerChoices}

\* terrain[0:2, :] = v, terrain[-2:, :] = v, terrain[:, 0:2] = v and
\* terrain[:, -2:] = v
SetRows(grid, rows, v) ==
    [r \in DOMAIN grid |-> [c \in DOMAIN grid[r] |->
        IF r \in rows THEN v ELSE grid[r][c]]]
SetCols(grid, cols, v) ==
    [r \in DOMAIN grid |-> [c \in DOMAIN grid[r] |->
        IF c \in cols THEN v ELSE grid[r][c]]]
FirstTwo(n) == {k \in 0..(n - 1) : k < 2}
LastTwo(n) == {k \in 0..(n - 1) : k >= n - 2}

\* indices[np.where(indices != v)[0][0]] for indices = [0, -1]
OtherIndex(v) == IF 0 # v THEN 0 ELSE -1

_set_initial_sea(grid) ==
    LET corners     == <<At(grid, 0, 0), At(grid, 0, -1),
                         At(grid, -1, 0), At(grid, -1, -1)>>
        neg_corners == {k \in 1..4 : corners[k] < 0}
    IN IF ~(Cardinality(neg_corners) > 0 /\ Cardinality(neg_corners) # 4)
       THEN grid
       ELSE
       LET min_corner == CHOOSE v \in {corners[k] : k \in neg_corners} :
                             \A k \in neg_corners : v <= corners[k]
           i       == (CHOOSE k \in 1..4 :
                          /\ corners[k] = min_corner
                          /\ \A j \in 1..(k - 1) : corners[j] # min_corner) - 1
           x1      == IF i = 0 \/ i = 1 THEN 0 ELSE -1
           y1      == IF i = 0 \/ i = 2 THEN 0 ELSE -1
           x_check == OtherIndex(x1)
           y_check == OtherIndex(y1)
           a       == At(grid, x1, y_check)
           b       == At(grid, x_check, y1)
           second  == IF a < 0 /\ b < 0
                      THEN (IF a < b THEN <<x1, y_check>> ELSE <<x_check, y1>>)
                      ELSE IF a < 0 THEN <<x1, y_check>>
                      ELSE IF b < 0 THEN <<x_check, y1>>
                      ELSE IF a < b THEN <<x1, y_check>>
                      ELSE IF b < a THEN <<x_check, y1>>
                      ELSE <<None, None>>
           x2      == second[1]
           y2      == second[2]
       IN IF None \in {x1, y1, x2, y2} THEN grid
          ELSE IF x1 = x2 /\ x2 = 0
               THEN SetRows(grid, FirstTwo(Rows(grid)), SEA_VALUE)
          ELSE IF x1 = x2 /\ x2 = -1
               THEN SetRows(grid, LastTwo(Rows(grid)), SEA_VALUE)
          ELSE IF y1 = y2 /\ y2 = 0
               THEN SetCols(grid, FirstTwo(Cols(grid)), SEA_VALUE)
          ELSE IF y1 = y2 /\ y2 = -1
               THEN SetCols(grid, LastTwo(Cols(grid)), SEA_VALUE)
          ELSE grid

InitSea ==
    /\ pc = "sea_call"
    /\ terrain \in SeaTerrains
    /\ grid_in = [terrain |-> terrain]
    /\ grid_out = <<>>
    /\ npoints = 0
    /\ step = 0
    /\ error = "none"
    /\ warned = FALSE
    /\ iterations = None
    /\ edge_width = None
    /\ re_mask = FALSE
    /\ cube = <<>>
    /\ smoothing_coefficients_x = <<>>
    /\ smoothing_coefficients_y = <<>>
    /\ mask_cube = <<>>
    /\ supplied_mask = <<>>
    /\ slice_index = 0
    /\ output = <<>>
    /\ mask = <<>>
    /\ nan_array = <<>>
    /\ iteration = 0
    /\ passes = <<>>
    /\ init_args = <<>>
    /\ recursed_cube = <<>>
    /\ new_cube = <<>>

\* the array is changed in place and returned
SetInitialSea ==
    /\ pc = "sea_call"
    /\ terrain' = _set_initial_sea(terrain)
    /\ grid_out' = terrain'
    /\ pc' = "sea_done"
    /\ UNCHANGED <<npoints, step, instance, arguments, grid_in, error, slice_index,
                   output, mask, nan_array, iteration, passes, recursed_cube,
                   new_cube>>

SpecSea == InitSea /\ [][SetInitialSea]_vars

(***************************************************************************)
(* improver.synthetic_data.generate_terrain._extract_domain, called on its *)
(* own on an ExtractSide x ExtractSide terrain.                            *)
(***************************************************************************)
ExtractSide == 5

BASE_VALUE == 5000
PEAK_VALUE == 100000

SetMax(S) == CHOOSE v \in S : \A w \in S : w <= v
SetMin(S) == CHOOSE v \in S : \A w \in S : v <= w

Transpose(grid) ==
    [c \in 0..(Cols(grid) - 1) |-> [r \in 0..(Rows(grid) - 1) |-> grid[r][c]]]

\* np.where(terrain == np.amax(terrain)), as a set of (row, column)
MaxIndices(grid) ==
    {p \in Cells(grid) :
        grid[p[1]][p[2]] = SetMax({grid[q[1]][q[2]] : q \in Cells(grid)})}

\* np.unique(neg_indices[0]) and np.unique(neg_indices[1])
NegativeRows(grid) ==
    {r \in DOMAIN grid : \E c \in DOMAIN grid[r] : grid[r][c] < 0}
NegativeCols(grid) ==
    {c \in DOMAIN grid[0] : \E r \in DOMAIN grid : grid[r][c] < 0}

\* np.where(terrain[x, :] < 0) and len(np.where(terrain[:, y] < 0)[0])
NegativeInRow(grid, x) == {c \in DOMAIN grid[x] : grid[x][c] < 0}
NegativeCountInCol(grid, y) ==
    Cardinality({r \in DOMAIN grid : At(grid, r, y) < 0})

\* int(np.ceil(npoints * 0.2)); the float product rounds to the same ceiling
\* for every npoints up to 14
twenty_pcnt(points) == (points + 4) \div 5

\* x_lower_bound: points rows back from the row of the maximum, or row 0
LowerBoundBelow(max_x, points) == IF max_x >= points THEN max_x - points ELSE 0

\* np.amax / np.amin of the negative columns of a row that has none
EmptySelection(grid, rows) == \E x \in rows : NegativeInRow(grid, x) = {}

\* y bounds when the first column holds more negative values than the last
TowardsFirstColumn(low_i, points, n) ==
    LET low_y == IF twenty_pcnt(points) <= low_i
                 THEN low_i - twenty_pcnt(points) ELSE 0
        low_d == IF low_y + points > n THEN (low_y + points) - (n - 1) ELSE 0
    IN <<low_y - low_d, (low_y + points) - low_d>>

\* y bounds when the last column holds more negative values than the first
TowardsLastColumn(high_i, points, n) ==
    LET high_y == IF high_i + twenty_pcnt(points) < n
                  THEN high_i + twenty_pcnt(points) ELSE n - 1
        high_d == IF high_y - points < 0 THEN high_y - points ELSE 0
    IN <<(high_y - points) - high_d, high_y - high_d>>

\* the y bounds for the rows x_lower_bound .. x_upper_bound - 1
YBounds(grid, rows, points, first, last) ==
    IF first > last
    THEN TowardsFirstColumn(
             SetMin({SetMax(NegativeInRow(grid, x)) : x \in rows}),
             points, Rows(grid))
    ELSE TowardsLastColumn(
             SetMin({SetMin(NegativeInRow(grid, x)) : x \in rows}),
             points, Rows(grid))

BoundsFrom(grid, points, x_lower_bound, first, last) ==
    IF first = last
    THEN [error |-> "none",
          bounds |-> <<x_lower_bound, x_lower_bound + points, None, None>>]
    ELSE IF EmptySelection(grid, x_lower_bound..(x_lower_bound + points - 1))
    THEN [error |-> "empty", bounds |-> <<None, None, None, None>>]
    ELSE [error |-> "none",
          bounds |-> <<x_lower_bound, x_lower_bound + points>> \o
                     YBounds(grid, x_lower_bound..(x_lower_bound + points - 1),
                             points, first, last)]

\* The branch taken when more rows than columns hold a negative value: the x
\* bounds are set around the maximum and the y bounds towards the edge column
\* with more negative values.  A comparison of an index array of several
\* maxima with npoints, and np.amax / np.amin of an empty selection, raise
\* ValueError.
BoundsTowardsColumn(grid, points) ==
    IF Cardinality(MaxIndices(grid)) > 1
    THEN [error |-> "ambiguous", bounds |-> <<None, None, None, None>>]
    ELSE BoundsFrom(grid, points,
                    LowerBoundBelow(SetMax({p[1] : p \in MaxIndices(grid)}),
                                    points),
                    NegativeCountInCol(grid, 0), NegativeCountInCol(grid, -1))

\* The branch taken when more columns than rows hold a negative value is the
\* same code with the two axes exchanged.
BoundsTowardsRow(grid, points) ==
    LET t == BoundsTowardsColumn(Transpose(grid), points)
    IN [error  |-> t.error,
        bounds |-> <<t.bounds[3], t.bounds[4], t.bounds[1], t.bounds[2]>>]

\* the indices a slice lower:upper selects from an axis of length n
SliceIndices(lower, upper, n) ==
    LET lo == IF lower < 0 THEN (IF lower + n < 0 THEN 0 ELSE lower + n)
              ELSE (IF lower > n THEN n ELSE lower)
        hi == IF upper < 0 THEN (IF upper + n < 0 THEN 0 ELSE upper + n)
              ELSE (IF upper > n THEN n ELSE upper)
    IN [k \in 0..((IF hi > lo THEN hi - lo ELSE 0) - 1) |-> lo + k]

\* the bounds the two branches compute; none when as many rows as columns hold
\* a negative value
FoundBounds(grid, points) ==
    IF Cardinality(NegativeRows(grid)) > Cardinality(NegativeCols(grid))
    THEN BoundsTowardsColumn(grid, points)
    ELSE IF Cardinality(NegativeRows(grid)) < Cardinality(NegativeCols(grid))
    THEN BoundsTowardsRow(grid, points)
    ELSE [error |-> "none", bounds |-> <<None, None, None, None>>]

\* terrain[x_lower_bound:x_upper_bound, y_lower_bound:y_upper_bound]
SelectedBlock(grid, xs, ys) ==
    [r \in DOMAIN xs |-> [c \in DOMAIN ys |-> grid[xs[r]][ys[c]]]]

ExtractWith(grid, found) ==
    [error   |-> found.error,
     bounds  |-> found.bounds,
     terrain |-> IF found.error # "none" \/ None \in {found.bounds[k] : k \in 1..4}
                 THEN grid
                 ELSE SelectedBlock(
                          grid,
                          SliceIndices(found.bounds[1], found.bounds[2], Rows(grid)),
                          SliceIndices(found.bounds[3], found.bounds[4], Cols(grid)))]

_extract_domain(grid, points) ==
    IF ~(points < Rows(grid))
    THEN [error |-> "none", terrain |-> grid,
          bounds |-> <<None, None, None, None>>]
    ELSE CHOOSE result \in
             {ExtractWith(grid, found) : found \in {FoundBounds(grid, points)}} :
             TRUE

\* where the terrain holds negative values
NegativePatterns ==
    LET n == ExtractSide
    IN [none      |-> {},
        row_first |-> {<<0, c>> : c \in 0..(n - 1)},
        row_last  |-> {<<n - 1, c>> : c \in 0..(n - 1)},
        col_first |-> {<<r, 0>> : r \in 0..(n - 1)},
        col_last  |-> {<<r, n - 1>> : r \in 0..(n - 1)},
        sea_band  |-> {<<r, c>> \in (0..(n - 1)) \X (0..(n - 1)) : r < 2},
        inland    |-> {<<r, c>> \in (0..(n - 1)) \X (0..(n - 1)) : r = 2 \/ c = 0},
        part_row  |-> {<<0, 0>>, <<0, 1>>},
        both_cols |-> {<<r, c>> \in (0..(n - 1)) \X (0..(n - 1)) :
                          c = 0 \/ c = n - 1},
        diagonal  |-> {<<0, 0>>, <<1, 1>>}]

\* where the terrain holds its maximum
PeakPlaces ==
    {{<<1, 1>>}, {<<3, 2>>}, {<<ExtractSide - 1, ExtractSide - 2>>},
     {<<2, 2>>, <<3, 3>>}}

ExtractTerrains ==
    {[r \in 0..(ExtractSide - 1) |-> [c \in 0..(ExtractSide - 1) |->
         IF <<r, c>> \in NegativePatterns[k] THEN SEA_VALUE
         ELSE IF <<r, c>> \in peak THEN PEAK_VALUE
         ELSE BASE_VALUE]] :
        k \in DOMAIN NegativePatterns, peak \in PeakPlaces}

InitExtract ==
    /\ pc = "extract_call"
    /\ terrain \in ExtractTerrains
    /\ npoints \in 1..ExtractSide
    /\ grid_in = <<>>
    /\ grid_out = <<>>
    /\ step = 0
    /\ error = "none"
    /\ warned = FALSE
    /\ iterations = None
    /\ edge_width = None
    /\ re_mask = FALSE
    /\ cube = <<>>
    /\ smoothing_coefficients_x = <<>>
    /\ smoothing_coefficients_y = <<>>
    /\ mask_cube = <<>>
    /\ supplied_mask = <<>>
    /\ slice_index = 0
    /\ output = <<>>
    /\ mask = <<>>
    /\ nan_array = <<>>
    /\ iteration = 0
    /\ passes = <<>>
    /\ init_args = <<>>
    /\ recursed_cube = <<>>
    /\ new_cube = <<>>

\* grid_out holds the returned array and the four bounds the call computed
ExtractDomain ==
    /\ pc = "extract_call"
    /\ LET result == _extract_domain(terrain, npoints)
       IN IF result.error # "none"
          THEN /\ pc' = "raised"
               /\ error' = result.error
               /\ UNCHANGED grid_out
          ELSE /\ pc' = "extract_done"
               /\ grid_out' = [terrain |-> result.terrain, bounds |-> result.bounds]
               /\ UNCHANGED error
    /\ UNCHANGED <<synthetic, instance, arguments, grid_in, slice_index, output,
                   mask, nan_array, iteration, passes, recursed_cube, new_cube>>

SpecExtract == InitExtract /\ [][ExtractDomain]_vars

(***************************************************************************)
(* Properties.                                                             *)
(***************************************************************************)
\* process has been entered (the constructor did not raise)
Called == pc \notin {"new", "constructed"} /\ error # "config"

\* no slice has been taken, filtered, appended or returned
Untouched ==
    /\ slice_index = 0
    /\ passes = <<>>
    /\ recursed_cube = <<>>
    /\ new_cube = <<>>

HasValueAbove(f, limit) ==
    \E r \in DOMAIN f.data : \E c \in DOMAIN f.data[r] : 2 * f.data[r][c] > 2 * limit

HasValueAtMost(f, limit) ==
    \E r \in DOMAIN f.data : \E c \in DOMAIN f.data[r] : f.data[r][c] <= limit

Misnamed(f) ==
    f.name \notin {"smoothing_coefficient_x", "smoothing_coefficient_y"}

ValidationErrors == {"range", "identity", "alignment"}

\* C1: whenever the x- or the y-coefficient cube holds a value above 0.5,
\* process raises the range error, and it does so before any slice has
\* been taken from the cube, filtered or appended.
C1_RangeErrorBeforeAnySlice ==
    (/\ Called
     /\ pc # "range_check"
     /\ \/ HasValueAbove(smoothing_coefficients_x, 5)
        \/ HasValueAbove(smoothing_coefficients_y, 5))
    => (pc = "raised" /\ error = "range" /\ Untouched)

C1_Witness ==
    /\ pc = "raised"
    /\ error = "range"
    /\ ~HasValueAbove(smoothing_coefficients_x, 5)
    /\ HasValueAbove(smoothing_coefficients_y, 5)

\* C2 (as claimed): a coefficient cube with a value that is zero or negative
\* is rejected like one with a value above 0.5, so process never gets to
\* its slices with such a cube.
C2_NonPositiveRejected ==
    (/\ Called
     /\ pc \in {"slices", "set_up", "pad", "recursion", "merge", "returned"})
    => /\ ~HasValueAtMost(smoothing_coefficients_x, 0)
       /\ ~HasValueAtMost(smoothing_coefficients_y, 0)

\* C3 (as claimed): whenever a coefficient cube is misnamed and no value
\* is above 0.5, process raises the identity error and no slice is
\* processed.
C3_MisnamedRaisesIdentity ==
    (/\ Called
     /\ pc \notin {"range_check", "validate_x", "validate_y"}
     /\ Misnamed(smoothing_coefficients_x) \/ Misnamed(smoothing_coefficients_y)
     /\ ~HasValueAbove(smoothing_coefficients_x, 5)
     /\ ~HasValueAbove(smoothing_coefficients_y, 5))
    => (pc = "raised" /\ error = "identity" /\ Untouched)

\* C3 (amended): whenever a coefficient cube is misnamed, process raises a
\* validation error and no slice is processed; the error is the identity
\* error exactly when no earlier check fails first, that is when neither
\* cube holds a value above 0.5 and, if only the y cube is misnamed, the x
\* cube passes its validation.
C3_MisnamedRaisesValidationError ==
    (/\ Called
     /\ pc \notin {"range_check", "validate_x", "validate_y"}
     /\ Misnamed(smoothing_coefficients_x) \/ Misnamed(smoothing_coefficients_y))
    => /\ pc = "raised"
       /\ error \in ValidationErrors
       /\ Untouched
       /\ error = "identity" <=>
            /\ ~HasValueAbove(smoothing_coefficients_x, 5)
            /\ ~HasValueAbove(smoothing_coefficients_y, 5)
            /\ \/ Misnamed(smoothing_coefficients_x)
               \/ _validate_smoothing_coefficients(cube, smoothing_coefficients_x)
                     = "none"

C3_Witness ==
    /\ pc = "raised"
    /\ error = "identity"
    /\ ~Misnamed(smoothing_coefficients_x)
    /\ Misnamed(smoothing_coefficients_y)

(***************************************************************************)
(* C4, on _validate_smoothing_coefficients called on its own.              *)
(***************************************************************************)
OwnAxis(f) == IF f.name = "smoothing_coefficient_x" THEN "x" ELSE "y"

OwnPoints(f) == IF OwnAxis(f) = "x" THEN f.x ELSE f.y
OtherPoints(f) == IF OwnAxis(f) = "x" THEN f.y ELSE f.x
OwnReference == IF OwnAxis(smoothing_coefficients_x) = "x" THEN XPoints ELSE YPoints
OtherReference == IF OwnAxis(smoothing_coefficients_x) = "x" THEN YPoints ELSE XPoints

\* n - 1 points, each the midpoint of a pair of consecutive reference points
ExactMidpoints(points, ref) ==
    /\ Len(points) = Len(ref) - 1
    /\ \A i \in 1..Len(points) : 2 * points[i] = ref[i] + ref[i + 1]

ExactPoints(points, ref) ==
    /\ Len(points) = Len(ref)
    /\ \A i \in 1..Len(points) : points[i] = ref[i]

\* the same within |a - b| <= 1e-8 + 1e-5 * |b|, b the reference value; on
\* thousandths that is RtolInv * |a - b| <= 1 + |b| (doubled for midpoints)
CloseMidpoints(points, ref) ==
    /\ Len(points) = Len(ref) - 1
    /\ \A i \in 1..Len(points) :
          Abs(2 * points[i] - (ref[i] + ref[i + 1]))
              <= (2 + Abs(ref[i] + ref[i + 1])) \div RtolInv

ClosePoints(points, ref) ==
    /\ Len(points) = Len(ref)
    /\ \A i \in 1..Len(points) :
          Abs(points[i] - ref[i]) <= (1 + Abs(ref[i])) \div RtolInv

\* C4 (as claimed): validation of a cube named for the x or the y axis
\* succeeds if and only if its own-axis points are exactly the n - 1
\* midpoints of the reference points and its other-axis points are exactly
\* the reference points; otherwise the alignment error is raised.
C4_ValidIffExactPoints ==
    (pc = "validated" /\ ~Misnamed(smoothing_coefficients_x))
    => /\ error \in {"none", "alignment"}
       /\ error = "none" <=>
            /\ ExactMidpoints(OwnPoints(smoothing_coefficients_x), OwnReference)
            /\ ExactPoints(OtherPoints(smoothing_coefficients_x), OtherReference)

\* C4 (amended): the same with "equal" read as np.allclose does: the point
\* counts must be n - 1 and n, and every point must lie within 1e-8 plus
\* 1e-5 times the reference value of its reference value.
C4_ValidIffClosePoints ==
    (pc = "validated" /\ ~Misnamed(smoothing_coefficients_x))
    => /\ error \in {"none", "alignment"}
       /\ error = "none" <=>
            /\ CloseMidpoints(OwnPoints(smoothing_coefficients_x), OwnReference)
            /\ ClosePoints(OtherPoints(smoothing_coefficients_x), OtherReference)

C4_Witness ==
    /\ pc = "validated"
    /\ error = "alignment"
    /\ smoothing_coefficients_x.name = "smoothing_coefficient_y"
    /\ ExactPoints(smoothing_coefficients_x.x, XPoints)
    /\ Len(smoothing_coefficients_x.y) = Ny - 1
    /\ ~CloseMidpoints(smoothing_coefficients_x.y, YPoints)

(***************************************************************************)
(* C5 - C9, on process.                                                    *)
(***************************************************************************)
\* C5: a range, identity or alignment error is only ever raised before the
\* first slice is taken (so before any recurrence pass), and a call that
\* raises returns no output cube.
C5_FailFast ==
    /\ error \in ValidationErrors => (pc = "raised" /\ Untouched)
    /\ pc = "raised" => new_cube = <<>>

C5_Witness ==
    /\ pc = "raised"
    /\ error = "alignment"
    /\ Rows(smoothing_coefficients_x.data) = Ny + 4 * edge_width
    /\ Untouched

\* C6: a constructor call with iterations given and below 1 raises the
\* configuration error and sets no attribute of the instance.
C6_IterationsBelowOneRejected ==
    (/\ pc # "new"
     /\ init_args.iterations # None
     /\ init_args.iterations < 1)
    => /\ pc = "raised"
       /\ error = "config"
       /\ iterations = None
       /\ edge_width = None
       /\ ~warned

C6_Witness ==
    /\ pc = "raised"
    /\ error = "config"
    /\ init_args.iterations = 0

\* C7: a constructor call with iterations above 2 succeeds, warns and
\* stores its three arguments; whatever fails afterwards is an error of
\* process, not of the constructor.
C7_IterationsAboveTwoWarn ==
    (/\ pc # "new"
     /\ init_args.iterations # None
     /\ init_args.iterations > 2)
    => /\ warned
       /\ error # "config"
       /\ iterations = init_args.iterations
       /\ edge_width = init_args.edge_width
       /\ re_mask = init_args.re_mask

C7_Witness ==
    /\ pc = "returned"
    /\ warned
    /\ iterations = 3
    /\ Len(new_cube) = Len(cube.slices)

\* C8 (as claimed): with iterations unset, process with valid inputs runs
\* the recurrence for exactly one iteration on each slice and raises no
\* TypeError.
C8_UnsetIterationsRunOnce ==
    (pc # "new" /\ init_args.iterations = None)
    => /\ error # "type"
       /\ (pc = "slices" /\ slice_index > 0) => Len(passes) = 4

\* the padded array _run_recursion is given for the current slice
PaddedInput ==
    pad_cube_with_halo(set_up_cubes(cube.slices[slice_index], mask_cube).cube,
                       2 * edge_width, 2 * edge_width)

\* the n-th pass of a slice applied to grid: forward x, backward x,
\* forward y, backward y, and again
NthPass(n, grid) ==
    CASE (n - 1) % 4 = 0 ->
            _recurse_forward(grid, smoothing_coefficients_x.data, 1)
      [] (n - 1) % 4 = 1 ->
            _recurse_backward(grid, smoothing_coefficients_x.data, 1)
      [] (n - 1) % 4 = 2 ->
            _recurse_forward(grid, smoothing_coefficients_y.data, 0)
      [] OTHER ->
            _recurse_backward(grid, smoothing_coefficients_y.data, 0)

\* the array after the first n passes, each run on the result of the one
\* before, starting from the padded slice
RECURSIVE ExpectedAfter(_)
ExpectedAfter(n) ==
    IF n = 0 THEN PaddedInput ELSE NthPass(n, ExpectedAfter(n - 1))

ExpectedPasses(n) ==
    [i \in 1..n |->
        <<"forward_x", "backward_x", "forward_y", "backward_y">>[((i - 1) % 4) + 1]]

\* the passes run so far on the current slice are a prefix of the expected
\* sequence, the first one starts from the padded slice, and a slice is
\* left with exactly 4 * iterations passes run
PassesInOrder ==
    (/\ Called
     /\ iterations # None
     /\ slice_index > 0
     /\ pc \in {"recursion", "slices", "merge", "returned"})
    => /\ passes = ExpectedPasses(Len(passes))
       /\ Len(passes) <= 4 * iterations
       /\ pc # "recursion" => Len(passes) = 4 * iterations
       /\ (pc = "recursion" /\ passes = <<>>) => output = PaddedInput

\* a step that runs a pass runs exactly one, on the array the pass before
\* left
PassesChained ==
    (pc = "recursion" /\ passes' # passes)
    => /\ Len(passes') = Len(passes) + 1
       /\ output' = NthPass(Len(passes'), output)

\* C9: on every slice the passes run are forward x, backward x, forward y,
\* backward y, repeated; a slice is finished after exactly 4 * iterations
\* of them; and each pass takes as input the array the pass before it
\* produced, the first one the padded slice.
C9_PassSequence == [](PassesInOrder) /\ [][PassesChained]_vars

C9_Witness ==
    /\ pc = "recursion"
    /\ iterations = 2
    /\ Len(passes) = 8
    /\ output # PaddedInput
    /\ output = ExpectedAfter(8)

(***************************************************************************)
(* C10, on _recurse_forward called on its own.                             *)
(***************************************************************************)
IsConstant(grid) ==
    \A r \in DOMAIN grid : \A c \in DOMAIN grid[r] : grid[r][c] = grid[0][0]

\* every coefficient in (0, 0.5]
AllInRange(coefs) ==
    \A r \in DOMAIN coefs : \A c \in DOMAIN coefs[r] :
        coefs[r][c] > 0 /\ 2 * coefs[r][c] <= CoefDen

\* C10: the forward pass along either axis, given a grid whose cells all
\* hold one value and coefficients in (0, 0.5], returns a grid of the same
\* shape whose cells all hold that value.
C10_ConstantIsFixedPoint ==
    (/\ pc = "pass_done"
     /\ passes = <<"forward">>
     /\ IsConstant(grid_in.grid)
     /\ AllInRange(grid_in.smoothing_coefficients))
    => /\ DOMAIN grid_out = DOMAIN grid_in.grid
       /\ \A r \in DOMAIN grid_out :
             /\ DOMAIN grid_out[r] = DOMAIN grid_in.grid[r]
             /\ \A c \in DOMAIN grid_out[r] : grid_out[r][c] = grid_in.grid[0][0]

C10_Witness ==
    /\ pc = "pass_done"
    /\ passes = <<"forward">>
    /\ grid_in.axis = 1
    /\ IsConstant(grid_in.grid)
    /\ grid_in.grid[0][0] = -7
    /\ AllInRange(grid_in.smoothing_coefficients)
    /\ ~IsConstant(grid_in.smoothing_coefficients)
    /\ IsConstant(grid_out)
    /\ grid_out[0][0] = -7

(***************************************************************************)
(* C11 - C18, on process.                                                  *)
(***************************************************************************)
\* a plain (unmasked) slice whose cells all hold one value that is no NaN
Uniform(sl) ==
    /\ ~sl.masked
    /\ IsConstant(sl.data)
    /\ ~isnan(sl.data[0][0])

\* C11: with no mask_cube and coefficients in (0, 0.5], every processed
\* slice whose input cells all held one finite value has the shape of its
\* input and holds that value in every cell.
C11_UniformSliceIsFixedPoint ==
    (/\ Called
     /\ supplied_mask = <<>>
     /\ AllInRange(smoothing_coefficients_x.data)
     /\ AllInRange(smoothing_coefficients_y.data))
    => \A k \in 1..Len(recursed_cube) :
          Uniform(cube.slices[k])
          => /\ DOMAIN recursed_cube[k].data = DOMAIN cube.slices[k].data
             /\ \A r \in DOMAIN recursed_cube[k].data :
                   /\ DOMAIN recursed_cube[k].data[r] = DOMAIN cube.slices[k].data[r]
                   /\ \A c \in DOMAIN recursed_cube[k].data[r] :
                         recursed_cube[k].data[r][c] = cube.slices[k].data[0][0]

C11_Witness ==
    /\ pc = "returned"
    /\ supplied_mask = <<>>
    /\ iterations = 2
    /\ edge_width >= 1
    /\ AllInRange(smoothing_coefficients_x.data)
    /\ AllInRange(smoothing_coefficients_y.data)
    /\ Uniform(cube.slices[1])
    /\ cube.slices[1].data[0][0] # 0
    /\ new_cube[1].data = cube.slices[1].data

\* position (r, c) of input slice k is invalid from the start: NaN, masked
\* in the slice's own data, or 0 in the mask_cube the caller supplied
OriginallyInvalid(k, r, c) ==
    \/ isnan(cube.slices[k].data[r][c])
    \/ cube.slices[k].masked /\ cube.slices[k].datamask[r][c]
    \/ supplied_mask # <<>> /\ supplied_mask[r][c] = 0

NoNaN(grid) ==
    \A r \in DOMAIN grid : \A c \in DOMAIN grid[r] : ~isnan(grid[r][c])

\* C12: when set_up_cubes has returned, the working slice holds no NaN,
\* holds 0 wherever the mask is 0 and the input value elsewhere, and the
\* mask is 0 at every position that was NaN, masked in the slice or masked
\* by the mask_cube; the array the recurrence starts from holds no NaN.
C12_WorkingSliceZeroedAndFinite ==
    /\ pc = "pad"
       => /\ NoNaN(output)
          /\ \A r \in DOMAIN output : \A c \in DOMAIN output[r] :
                /\ mask[r][c] = 0 => output[r][c] = 0
                /\ mask[r][c] # 0 => output[r][c] = cube.slices[slice_index].data[r][c]
                /\ OriginallyInvalid(slice_index, r, c) => mask[r][c] = 0
    /\ (pc = "recursion" /\ passes = <<>>) => NoNaN(output)

C12_Witness ==
    /\ pc = "pad"
    /\ supplied_mask # <<>>
    /\ isnan(cube.slices[slice_index].data[0][1])
    /\ output[0][1] = 0
    /\ mask[0][1] = 0
    /\ supplied_mask[0][1] = 1
    /\ supplied_mask[Ny - 1][Nx - 1] = 0
    /\ cube.slices[slice_index].data[Ny - 1][Nx - 1] = 4000
    /\ output[Ny - 1][Nx - 1] = 0
    /\ output[0][0] = 1000

\* the slice process appended last, and the input slice it was made from
LastDone == recursed_cube[slice_index]
LastInput == cube.slices[slice_index]

SliceFinished ==
    /\ pc \in {"slices", "merge", "returned"}
    /\ slice_index > 0
    /\ Len(recursed_cube) = slice_index

\* C13: with re_mask set, a finished slice is a masked array whose mask is
\* set exactly where the mask of the slice (as set_up_cubes returned it)
\* is 0, and so at every position that was NaN, masked in the input slice
\* or masked by the supplied mask_cube.
C13_ReMaskRestoresMask ==
    (SliceFinished /\ re_mask)
    => /\ LastDone.masked
       /\ \A r \in DOMAIN LastInput.data : \A c \in DOMAIN LastInput.data[r] :
             /\ LastDone.datamask[r][c] <=> (mask[r][c] = 0)
             /\ OriginallyInvalid(slice_index, r, c) => LastDone.datamask[r][c]

C13_Witness ==
    /\ SliceFinished
    /\ re_mask
    /\ supplied_mask # <<>>
    /\ LastInput.masked
    /\ LastDone.datamask[Ny - 1][0]
    /\ LastDone.datamask[Ny - 1][Nx - 1]
    /\ ~LastDone.datamask[0][0]

\* C14: without re_mask, a finished slice is a plain array (no mask) that
\* holds no NaN, also where the input slice was NaN or masked.
C14_NoReMaskPlainAndFinite ==
    (SliceFinished /\ ~re_mask)
    => /\ ~LastDone.masked
       /\ NoNaN(LastDone.data)
       /\ \A r \in DOMAIN LastDone.datamask : \A c \in DOMAIN LastDone.datamask[r] :
             ~LastDone.datamask[r][c]

C14_Witness ==
    /\ SliceFinished
    /\ ~re_mask
    /\ supplied_mask # <<>>
    /\ isnan(LastInput.data[0][1])
    /\ LastDone.data[0][1] > 0
    /\ LastDone.data[Ny - 1][Nx - 1] > 0
    /\ LastDone.data[Ny - 1][Nx - 1] < 4000

\* C15 (as claimed): whatever re_mask is, the data array of a finished
\* slice holds no NaN where the input slice held NaN.
C15_NoNaNInBuffer ==
    SliceFinished
    => \A r \in DOMAIN LastInput.data : \A c \in DOMAIN LastInput.data[r] :
          isnan(LastInput.data[r][c]) => ~isnan(LastDone.data[r][c])

\* C15 (amended): without re_mask the data array of a finished slice holds
\* no NaN; with re_mask it holds NaN exactly where the input slice held
\* NaN, and each of those positions is masked.
C15_NaNInBufferIffReMask ==
    SliceFinished
    => \A r \in DOMAIN LastInput.data : \A c \in DOMAIN LastInput.data[r] :
          /\ isnan(LastDone.data[r][c]) <=> (re_mask /\ isnan(LastInput.data[r][c]))
          /\ isnan(LastDone.data[r][c]) => LastDone.datamask[r][c]

C15_Witness ==
    /\ SliceFinished
    /\ re_mask
    /\ isnan(LastInput.data[0][1])
    /\ isnan(LastDone.data[0][1])
    /\ LastDone.datamask[0][1]
    /\ ~isnan(LastDone.data[0][0])

\* the width of the halo process puts on each side of a slice and of a
\* coefficient array
Halo == 2 * edge_width

\* the coefficient cube's array has grown by margin on every side of the
\* array its coordinates describe
CoefficientsPaddedBy(f, margin) ==
    /\ Rows(f.data) = Len(f.y) + 2 * margin
    /\ Cols(f.data) = Len(f.x) + 2 * margin

\* the array grid is the array inner with margin more cells on every side
PaddedBy(grid, inner, margin) ==
    /\ Rows(grid) = Rows(inner) + 2 * margin
    /\ Cols(grid) = Cols(inner) + 2 * margin

\* C16 (as claimed): a slice in the recurrence is its input with edge_width
\* cells added on every side, and the coefficient cubes have 2 * edge_width
\* cells added on every side.
C16_DataHaloIsEdgeWidth ==
    pc = "recursion"
    => /\ PaddedBy(output, LastInput.data, edge_width)
       /\ CoefficientsPaddedBy(smoothing_coefficients_x, 2 * edge_width)
       /\ CoefficientsPaddedBy(smoothing_coefficients_y, 2 * edge_width)

\* C16 (amended): a slice in the recurrence is its set-up array with
\* 2 * edge_width cells added on every side, the cells next to an edge
\* mirroring the cells inside it; the coefficient cubes have 2 * edge_width
\* cells added on every side too; and a finished slice is the filtered
\* array without those 2 * edge_width cells on every side.
C16_BothHalosTwiceEdgeWidth ==
    /\ pc = "recursion"
       => /\ PaddedBy(output, LastInput.data, Halo)
          /\ CoefficientsPaddedBy(smoothing_coefficients_x, Halo)
          /\ CoefficientsPaddedBy(smoothing_coefficients_y, Halo)
    /\ (pc = "recursion" /\ passes = <<>>)
       => \A r \in DOMAIN LastInput.data : \A c \in DOMAIN LastInput.data[r] :
             /\ output[r + Halo][c + Halo] = (IF mask[r][c] = 0 THEN 0
                                              ELSE LastInput.data[r][c])
             /\ output[Halo - 1][c + Halo] = output[Halo][c + Halo]
             /\ output[r + Halo][Halo - 1] = output[r + Halo][Halo]
             /\ output[Rows(output) - Halo][c + Halo]
                   = output[Rows(output) - Halo - 1][c + Halo]
             /\ output[r + Halo][Cols(output) - Halo]
                   = output[r + Halo][Cols(output) - Halo - 1]
    /\ SliceFinished
       => /\ PaddedBy(output, LastDone.data, Halo)
          /\ \A r \in DOMAIN LastDone.data : \A c \in DOMAIN LastDone.data[r] :
                \/ LastDone.data[r][c] = output[r + Halo][c + Halo]
                \/ re_mask /\ nan_array[r][c] /\ isnan(LastDone.data[r][c])

C16_Witness ==
    /\ pc = "recursion"
    /\ passes = <<>>
    /\ edge_width = 1
    /\ Rows(output) = Ny + 4
    /\ Cols(output) = Nx + 4
    /\ Cols(smoothing_coefficients_x.data) = Nx - 1 + 4
    /\ Rows(smoothing_coefficients_y.data) = Ny - 1 + 4
    /\ output[2][2] = 8000
    /\ output[1][1] = 8000
    /\ output[0][0] = 0

\* where process stands in its loop over the slices, in numbers: the
\* slices taken and the slices appended
InSlice == pc \in {"set_up", "pad", "recursion"}
AfterSlice == pc \in {"slices", "merge", "returned"}

SlicesInStep ==
    /\ pc = "set_up" => output = cube.slices[slice_index]
    /\ (Called /\ InSlice) => Len(recursed_cube) = slice_index - 1
    /\ (Called /\ AfterSlice) => Len(recursed_cube) = slice_index
    /\ pc = "merge" => slice_index = Len(cube.slices)
    /\ pc = "returned"
       => /\ new_cube = recursed_cube
          /\ Len(new_cube) = Len(cube.slices)

\* the slices are taken one by one in their order, and what is appended is
\* one slice, made from the array the passes left for the slice taken last;
\* slices appended before stay as they are
SlicesAppendedInOrder ==
    /\ slice_index' # slice_index
       => /\ slice_index' = slice_index + 1
          /\ Len(recursed_cube) = slice_index
          /\ output' = cube.slices[slice_index']
    /\ recursed_cube' # recursed_cube
       => /\ Len(recursed_cube') = slice_index
          /\ SubSeq(recursed_cube', 1, Len(recursed_cube)) = recursed_cube
          /\ Len(passes) = 4 * iterations
          /\ LET done == recursed_cube'[slice_index]
             IN \A r \in DOMAIN done.data : \A c \in DOMAIN done.data[r] :
                   \/ done.data[r][c] = output[r + Halo][c + Halo]
                   \/ re_mask /\ nan_array[r][c] /\ isnan(done.data[r][c])

\* C17: process takes the slices of the cube one at a time in their order,
\* appends exactly one processed slice for each, the k-th appended slice
\* being made from the k-th input slice, and returns as many slices as the
\* cube has.
C17_SlicesInOrder == [](SlicesInStep) /\ [][SlicesAppendedInOrder]_vars

C17_Witness ==
    /\ pc = "returned"
    /\ Len(cube.slices) = 2
    /\ Len(new_cube) = 2
    /\ cube.slices[1] # cube.slices[2]
    /\ new_cube[1] # new_cube[2]

\* the first n passes of a slice, run on grid
RECURSIVE RunPasses(_, _)
RunPasses(grid, n) ==
    IF n = 0 THEN grid ELSE NthPass(n, RunPasses(grid, n - 1))

\* what process makes of the slice sl when it is the only slice there is:
\* set up with the mask_cube as the caller supplied it, padded, filtered,
\* cropped and re-masked
FilteredAlone(sl) ==
    LET s    == set_up_cubes(sl, supplied_mask)
        data == remove_halo_from_cube(
                    RunPasses(pad_cube_with_halo(s.cube, Halo, Halo), 4 * iterations),
                    Halo, Halo)
    IN IF re_mask
       THEN [data     |-> [r \in DOMAIN data |-> [c \in DOMAIN data[r] |->
                              IF s.nan_array[r][c] THEN NaN ELSE data[r][c]]],
             masked   |-> TRUE,
             datamask |-> [r \in DOMAIN data |-> [c \in DOMAIN data[r] |->
                              s.mask[r][c] = 0]]]
       ELSE [data     |-> data,
             masked   |-> FALSE,
             datamask |-> Full(Rows(data), Cols(data), FALSE)]

\* the result of a slice is what the slice gives on its own
SliceResultIsOwn == SliceFinished => LastDone = FilteredAlone(LastInput)

\* process leaves the caller's mask_cube as it was supplied
MaskCubeKept == Called => mask_cube = supplied_mask

\* C18 (as claimed): the processed slice k depends on slice k, the
\* coefficients, the configuration and the supplied mask_cube only, not on
\* the slices before it, and the mask_cube is after the call what it was
\* before.
C18_SlicesIndependent == SliceResultIsOwn /\ MaskCubeKept

(***************************************************************************)
(* C19, on diamond_square.                                                 *)
(***************************************************************************)
TerrainReturned == pc = "terrain_returned"

\* 2^n + 1 for n = ceil(log2(npoints - 1)): n is the least exponent whose
\* power of two reaches npoints - 1
IsSideFor(side, points) ==
    \E n \in 0..points :
        /\ Pow2(n) >= points - 1
        /\ \A k \in 0..(n - 1) : Pow2(k) < points - 1
        /\ side = Pow2(n) + 1

TerrainComplete ==
    LET last == Rows(terrain) - 1
    IN /\ IsSideFor(Rows(terrain), npoints)
       /\ DOMAIN terrain = 0..last
       /\ \A r \in DOMAIN terrain : DOMAIN terrain[r] = 0..last
       /\ \A r \in DOMAIN terrain : \A c \in DOMAIN terrain[r] :
              terrain[r][c] # INIT_VAL
       /\ terrain[0][0] = CORNER_VALUES[1]
       /\ terrain[0][last] = CORNER_VALUES[2]
       /\ terrain[last][0] = CORNER_VALUES[3]
       /\ terrain[last][last] = CORNER_VALUES[4]

\* C19 as stated: for every npoints, diamond_square(npoints) returns, and what
\* it returns is a square array of side 2^n + 1 with no cell left at INIT_VAL
\* and with CORNER_VALUES at its four corners.
C19_EveryNpointsFilled ==
    /\ pc # "raised"
    /\ TerrainReturned => TerrainComplete

\* C19 amended: for every npoints >= 2, diamond_square(npoints) returns a
\* square array of side 2^n + 1 with no cell left at INIT_VAL and with
\* CORNER_VALUES at its four corners; for npoints = 1 it raises the
\* ValueError of math.log2(0) and returns nothing.
C19_FilledFromTwoPoints ==
    /\ npoints >= 2 => pc # "raised"
    /\ pc = "raised" => error = "domain" /\ terrain = <<>>
    /\ npoints < 2 => ~TerrainReturned
    /\ TerrainReturned => TerrainComplete

\* a terrain larger than the npoints asked for, returned after three steps
C19_Witness ==
    /\ TerrainReturned
    /\ step = 3
    /\ Rows(terrain) > npoints
    /\ TerrainComplete

(***************************************************************************)
(* C20, on _recurse_forward called on its own.                             *)
(***************************************************************************)
\* the cell at index i along axis and index j across it
AlongAxis(grid, axis, i, j) == IF axis = 0 THEN grid[i][j] ELSE grid[j][i]

ForwardDone == pc = "pass_done" /\ passes = <<"forward">>

\* C20: the forward pass along an axis of length L leaves the line at index 0
\* as it was and gives every line i from 1 to L-1 the value
\* (1 - C[i-1]) * G[i] + C[i-1] * G'[i-1], cell by cell across the other axis,
\* where G[i] is the line as it was passed in (each cell is written once) and
\* G'[i-1] is the neighbouring line as this same pass returned it.
C20_ForwardRecurrence ==
    ForwardDone =>
        LET G    == grid_in.grid
            C    == grid_in.smoothing_coefficients
            axis == grid_in.axis
            L    == Shape(G, axis)
            W    == Shape(G, 1 - axis)
        IN /\ DOMAIN grid_out = DOMAIN G
           /\ \A r \in DOMAIN G : DOMAIN grid_out[r] = DOMAIN G[r]
           /\ \A j \in 0..(W - 1) :
                  AlongAxis(grid_out, axis, 0, j) = AlongAxis(G, axis, 0, j)
           /\ \A i \in 1..(L - 1) : \A j \in 0..(W - 1) :
                  AlongAxis(grid_out, axis, i, j) =
                      ((CoefDen - AlongAxis(C, axis, i - 1, j))
                           * AlongAxis(G, axis, i, j)
                       + AlongAxis(C, axis, i - 1, j)
                           * AlongAxis(grid_out, axis, i - 1, j)) \div CoefDen

\* a single non-zero cell on line 0 has spread to line 2, which the
\* original line 1 (all zero) could not have carried there
C20_Witness ==
    /\ ForwardDone
    /\ grid_in.axis = 0
    /\ grid_in.grid[0][0] = 1000
    /\ grid_in.grid[1][0] = 0
    /\ grid_in.grid[2][0] = 0
    /\ grid_out[0][0] = 1000
    /\ grid_out[1][0] > 0
    /\ grid_out[2][0] > 0

(***************************************************************************)
(* C21, on _recurse_backward called on its own.                            *)
(***************************************************************************)
BackwardDone == pc = "pass_done" /\ passes = <<"backward">>

\* C21: the backward pass along an axis of length L leaves the line at index
\* L-1 as it was and gives every line i from L-2 down to 0 the value
\* (1 - C[i]) * G[i] + C[i] * G'[i+1], cell by cell across the other axis,
\* where G[i] is the line as it was passed in (each cell is written once) and
\* G'[i+1] is the neighbouring line as this same pass returned it.
C21_BackwardRecurrence ==
    BackwardDone =>
        LET G    == grid_in.grid
            C    == grid_in.smoothing_coefficients
            axis == grid_in.axis
            L    == Shape(G, axis)
            W    == Shape(G, 1 - axis)
        IN /\ DOMAIN grid_out = DOMAIN G
           /\ \A r \in DOMAIN G : DOMAIN grid_out[r] = DOMAIN G[r]
           /\ \A j \in 0..(W - 1) :
                  AlongAxis(grid_out, axis, L - 1, j) = AlongAxis(G, axis, L - 1, j)
           /\ \A i \in 0..(L - 2) : \A j \in 0..(W - 1) :
                  AlongAxis(grid_out, axis, i, j) =
                      ((CoefDen - AlongAxis(C, axis, i, j))
                           * AlongAxis(G, axis, i, j)
                       + AlongAxis(C, axis, i, j)
                           * AlongAxis(grid_out, axis, i + 1, j)) \div CoefDen

\* a single non-zero cell on the last line has spread two lines back along
\* axis 1, which the original line between them (all zero) could not carry
C21_Witness ==
    /\ BackwardDone
    /\ grid_in.axis = 1
    /\ grid_in.grid[0][PassN - 1] = 1000
    /\ grid_in.grid[0][PassN - 2] = 0
    /\ grid_in.grid[0][PassN - 3] = 0
    /\ grid_out[0][PassN - 1] = 1000
    /\ grid_out[0][PassN - 2] > 0
    /\ grid_out[0][PassN - 3] > 0

(***************************************************************************)
(* C22, on set_up_cubes as process calls it.                               *)
(***************************************************************************)
\* the step of process that calls set_up_cubes(output, mask_cube)
SetUpStep == pc = "set_up" /\ pc' = "pad"

\* the external mask as it is passed to the call, all-valid when it is None
ExternalValid(r, c) == mask_cube = <<>> \/ mask_cube[r][c] # 0

IntrinsicallyMasked(r, c) == output.masked /\ output.datamask[r][c]

MaskAsStated ==
    SetUpStep =>
        /\ DOMAIN mask' = DOMAIN output.data
        /\ DOMAIN nan_array' = DOMAIN output.data
        /\ \A r \in DOMAIN output.data :
              /\ DOMAIN mask'[r] = DOMAIN output.data[r]
              /\ DOMAIN nan_array'[r] = DOMAIN output.data[r]
              /\ \A c \in DOMAIN output.data[r] :
                    /\ mask'[r][c] \in {0, 1}
                    /\ mask'[r][c] # 0
                       <=> /\ ExternalValid(r, c)
                           /\ ~IntrinsicallyMasked(r, c)
                           /\ ~isnan(output.data[r][c])
                    /\ nan_array'[r][c] <=> isnan(output.data[r][c])

\* C22: the mask set_up_cubes returns is valid at a position exactly when the
\* mask_cube it was given (all-valid when None) is valid there, the slice is
\* not masked there and the slice's raw value there is not NaN; nan_array is
\* true exactly where the raw value is NaN.
C22_MaskIsConjunction == [][MaskAsStated]_vars

\* set_up_cubes has run on the slice that holds a NaN, with a mask_cube that
\* is invalid at another cell
C22_Witness ==
    /\ pc = "pad"
    /\ supplied_mask # <<>>
    /\ cube.slices[slice_index] = SliceOf(2)
    /\ nan_array[0][1]
    /\ mask[0][1] = 0
    /\ mask[Ny - 1][Nx - 1] = 0
    /\ mask[0][0] = 1
    /\ \A r \in DOMAIN nan_array : \A c \in DOMAIN nan_array[r] :
           nan_array[r][c] => (r = 0 /\ c = 1)

(***************************************************************************)
(* C23, on the passes called on their own: the in-place loop against a     *)
(* loop that keeps the input and the output in two buffers.                *)
(***************************************************************************)
\* line i of the output buffer, from line i of the untouched input and line
\* `from` of the output buffer, weighted by coefficient line k
BufferedLine(original, buffer, coefficients, axis, i, from, k) ==
    IF axis = 0
    THEN [buffer EXCEPT ![i] = [c \in DOMAIN original[i] |->
             Blend(coefficients[k][c], original[i][c], buffer[from][c])]]
    ELSE [r \in DOMAIN buffer |-> [buffer[r] EXCEPT ![i] =
             Blend(coefficients[r][k], original[r][i], buffer[r][from])]]

RECURSIVE BufferedForward(_, _, _, _, _)
BufferedForward(original, buffer, coefficients, axis, i) ==
    IF i >= Shape(original, axis) THEN buffer
    ELSE CHOOSE done \in
             {BufferedForward(original, b, coefficients, axis, i + 1) :
                 b \in {BufferedLine(original, buffer, coefficients, axis,
                                     i, i - 1, i - 1)}} : TRUE

RECURSIVE BufferedBackward(_, _, _, _, _)
BufferedBackward(original, buffer, coefficients, axis, i) ==
    IF i < 0 THEN buffer
    ELSE CHOOSE done \in
             {BufferedBackward(original, b, coefficients, axis, i - 1) :
                 b \in {BufferedLine(original, buffer, coefficients, axis,
                                     i, i + 1, i)}} : TRUE

\* C23: a forward or backward pass run in place returns the grid that a
\* double-buffered pass returns, one that reads cell i from an untouched copy
\* of the input and its already updated neighbour from the output buffer.
C23_InPlaceIsDoubleBuffered ==
    LET G    == grid_in.grid
        C    == grid_in.smoothing_coefficients
        axis == grid_in.axis
    IN /\ ForwardDone => grid_out = BufferedForward(G, G, C, axis, 1)
       /\ BackwardDone
          => grid_out = BufferedBackward(G, G, C, axis, Shape(G, axis) - 2)

\* a backward pass over the ramp grid, every line but the last changed
C23_Witness ==
    /\ BackwardDone
    /\ grid_in.axis = 0
    /\ ~IsConstant(grid_in.grid)
    /\ \A r \in 0..(PassN - 2) : grid_in.grid[r][0] < grid_in.grid[r + 1][0]
    /\ \A r \in 0..(PassN - 2) : grid_out[r][0] # grid_in.grid[r][0]
    /\ grid_out[PassN - 1] = grid_in.grid[PassN - 1]

(***************************************************************************)
(* C24, on _set_initial_sea called on its own.                             *)
(***************************************************************************)
SeaDone == pc = "sea_done"

\* the corners as (row, column) positions, in the order the code lists them
CornerAt(grid, k) ==
    LET last == Rows(grid) - 1
    IN <<<<0, 0>>, <<0, last>>, <<last, 0>>, <<last, last>>>>[k]
CornerValue(grid, k) == grid[CornerAt(grid, k)[1]][CornerAt(grid, k)[2]]
NegativeCorners(grid) == {k \in 1..4 : CornerValue(grid, k) < 0}

\* two corners are adjacent when they share a row or a column
Adjacent(grid, k, m) ==
    /\ k # m
    /\ \/ CornerAt(grid, k)[1] = CornerAt(grid, m)[1]
       \/ CornerAt(grid, k)[2] = CornerAt(grid, m)[2]

\* the band of two rows or two columns along the edge that joins k and m
EdgeBand(grid, k, m) ==
    LET n == Rows(grid)
    IN IF CornerAt(grid, k)[1] = CornerAt(grid, m)[1]
       THEN {<<r, c>> \in (0..(n - 1)) \X (0..(n - 1)) :
                IF CornerAt(grid, k)[1] = 0 THEN r < 2 ELSE r >= n - 2}
       ELSE {<<r, c>> \in (0..(n - 1)) \X (0..(n - 1)) :
                IF CornerAt(grid, k)[2] = 0 THEN c < 2 ELSE c >= n - 2}

\* m is the corner the stated rule pairs with the most negative corner k: an
\* adjacent corner that is negative if any adjacent corner is, and not above
\* the other adjacent corner when both or neither are negative
Paired(grid, k, m) ==
    /\ k \in NegativeCorners(grid)
    /\ \A j \in 1..4 : CornerValue(grid, k) <= CornerValue(grid, j)
    /\ Adjacent(grid, k, m)
    /\ \A o \in 1..4 :
           (Adjacent(grid, k, o) /\ o # m)
           => \/ CornerValue(grid, m) < 0 /\ CornerValue(grid, o) >= 0
              \/ /\ (CornerValue(grid, m) < 0) = (CornerValue(grid, o) < 0)
                 /\ CornerValue(grid, m) <= CornerValue(grid, o)

BandSet(before, after, band) ==
    /\ DOMAIN after = DOMAIN before
    /\ \A r \in DOMAIN before :
          /\ DOMAIN after[r] = DOMAIN before[r]
          /\ \A c \in DOMAIN before[r] :
                after[r][c] = IF <<r, c>> \in band THEN SEA_VALUE
                              ELSE before[r][c]

\* the two corners adjacent to the most negative one are equal and not negative
AdjacentTie(grid) ==
    \E k \in NegativeCorners(grid) :
        /\ \A j \in 1..4 : CornerValue(grid, k) <= CornerValue(grid, j)
        /\ \E m, o \in 1..4 :
              /\ m # o /\ Adjacent(grid, k, m) /\ Adjacent(grid, k, o)
              /\ CornerValue(grid, m) = CornerValue(grid, o)
              /\ CornerValue(grid, m) >= 0

\* C24: with none or all four corners negative _set_initial_sea returns the
\* terrain unchanged; with 1 to 3 negative corners it sets exactly one edge
\* band of two rows or two columns to -0.01, the one along the edge joining
\* the most negative corner with the adjacent corner the rule picks, and
\* leaves every cell outside that band unchanged.
C24_OneBandForMixedCorners ==
    SeaDone =>
        LET before == grid_in.terrain
            negs   == Cardinality(NegativeCorners(before))
        IN /\ negs \in {0, 4} => terrain = before
           /\ negs \in 1..3
              => \E k, m \in 1..4 :
                    /\ Paired(before, k, m)
                    /\ BandSet(before, terrain, EdgeBand(before, k, m))

\* what holds of the code: the same, except that the terrain comes back
\* unchanged when the two adjacent corners are equal and not negative
SeaBandUnlessTie ==
    SeaDone =>
        LET before == grid_in.terrain
            negs   == Cardinality(NegativeCorners(before))
        IN /\ (negs \in {0, 4} \/ AdjacentTie(before)) => terrain = before
           /\ (negs \in 1..3 /\ ~AdjacentTie(before))
              => \E k, m \in 1..4 :
                    /\ Paired(before, k, m)
                    /\ BandSet(before, terrain, EdgeBand(before, k, m))

(***************************************************************************)
(* C25, on _extract_domain called on its own.                              *)
(***************************************************************************)
ExtractDone == pc = "extract_done"

BoundsComputed == \A k \in 1..4 : grid_out.bounds[k] # None

\* what was returned is the npoints x npoints block of the terrain that the
\* computed bounds delimit, and the bounds lie within the terrain
IsRequestedBlock ==
    LET b == grid_out.bounds
        n == Rows(terrain)
    IN /\ BoundsComputed
       /\ 0 <= b[1] /\ b[2] <= n /\ b[2] - b[1] = npoints
       /\ 0 <= b[3] /\ b[4] <= n /\ b[4] - b[3] = npoints
       /\ grid_out.terrain =
              [r \in 0..(npoints - 1) |-> [c \in 0..(npoints - 1) |->
                  terrain[b[1] + r][b[3] + c]]]

\* C25: _extract_domain returns the terrain unchanged when npoints equals the
\* side length, and whenever npoints is smaller it returns a contiguous
\* npoints x npoints sub-block whose row and column bounds satisfy
\* 0 <= lower, upper <= side length and upper - lower = npoints.
C25_ExtractsRequestedBlock ==
    /\ (ExtractDone /\ npoints = Rows(terrain)) => grid_out.terrain = terrain
    /\ npoints < Rows(terrain)
       => /\ pc # "raised"
          /\ ExtractDone => IsRequestedBlock

\* what holds of the code: the block is returned whenever all four bounds
\* were computed; otherwise the terrain comes back whole
BlockWhenBoundsComputed ==
    ExtractDone =>
        IF npoints < Rows(terrain) /\ BoundsComputed
        THEN IsRequestedBlock
        ELSE grid_out.terrain = terrain

\* the case of the terrain without negative values
NoNegativesReturnedWhole ==
    (ExtractDone /\ npoints < Rows(terrain) /\ NegativeRows(terrain) = {})
    => grid_out.terrain = terrain

(***************************************************************************)
(* C26, on _initialise_terrain as diamond_square calls it.                 *)
(***************************************************************************)
\* _initialise_terrain has returned and no step has run yet
TerrainInitialised == pc = "terrain_steps" /\ step = 0

\* side is the smallest number of the form 2^k + 1 that is >= points
SmallestSideFor(side, points) ==
    /\ side >= points
    /\ \E k \in 0..points : side = Pow2(k) + 1
    /\ \A k \in 0..points : Pow2(k) + 1 >= points => side <= Pow2(k) + 1

\* C26: _initialise_terrain(npoints) returns n = ceil(log2(npoints - 1)) and a
\* square array of side 2^n + 1, the smallest side of the form 2^k + 1 that
\* is >= npoints, whose corners hold CORNER_VALUES in the order top-left,
\* top-right, bottom-left, bottom-right and whose other cells hold INIT_VAL.
C26_InitialTerrain ==
    TerrainInitialised =>
        LET n    == _initialise_terrain(npoints).n
            side == Rows(terrain)
            last == side - 1
            Corner(r, c) == r \in {0, last} /\ c \in {0, last}
        IN /\ terrain = _initialise_terrain(npoints).terrain
           /\ Pow2(n) >= npoints - 1
           /\ \A k \in 0..(n - 1) : Pow2(k) < npoints - 1
           /\ side = Pow2(n) + 1
           /\ SmallestSideFor(side, npoints)
           /\ DOMAIN terrain = 0..last
           /\ \A r \in 0..last : DOMAIN terrain[r] = 0..last
           /\ terrain[0][0] = CORNER_VALUES[1]
           /\ terrain[0][last] = CORNER_VALUES[2]
           /\ terrain[last][0] = CORNER_VALUES[3]
           /\ terrain[last][last] = CORNER_VALUES[4]
           /\ \A r \in 0..last : \A c \in 0..last :
                  ~Corner(r, c) => terrain[r][c] = INIT_VAL

\* six points asked for: n = 3 and a 9 x 9 array
C26_Witness ==
    /\ TerrainInitialised
    /\ npoints = 6
    /\ _initialise_terrain(npoints).n = 3
    /\ Rows(terrain) = 9
    /\ terrain[0][8] = -800
    /\ terrain[8][0] = 200
    /\ terrain[4][4] = INIT_VAL

(***************************************************************************)
(* C27, on the passes of process.                                          *)
(***************************************************************************)
GridValues(grid) == {grid[p[1]][p[2]] : p \in Cells(grid)}

\* every coefficient of both padded fields in [0, 0.5]
CoefficientsWithinHalf ==
    \A f \in {smoothing_coefficients_x, smoothing_coefficients_y} :
        \A v \in GridValues(f.data) : 0 <= v /\ 2 * v <= CoefDen

WithinPaddedRange ==
    LET low  == SetMin(GridValues(PaddedInput))
        high == SetMax(GridValues(PaddedInput))
    IN \A v \in GridValues(output) : low <= v /\ v <= high

\* C27: when all coefficients lie in [0, 0.5], after any number of forward
\* and backward passes in any iteration every cell of the grid lies between
\* the minimum and the maximum of the padded grid before the first pass.
C27_PassesStayWithinRange ==
    (pc = "recursion" /\ CoefficientsWithinHalf) => WithinPaddedRange

\* two whole iterations over a slice that is not uniform, which the passes
\* have changed and spread strictly inside the range
C27_Witness ==
    /\ pc = "recursion"
    /\ iterations = 2
    /\ Len(passes) = 8
    /\ CoefficientsWithinHalf
    /\ output # PaddedInput
    /\ Cardinality(GridValues(PaddedInput)) > 1
    /\ \E v \in GridValues(output) :
           /\ SetMin(GridValues(PaddedInput)) < v
           /\ v < SetMax(GridValues(PaddedInput))
    /\ WithinPaddedRange

(***************************************************************************)
(* C28, on process.                                                        *)
(***************************************************************************)
BeingValidated == pc \in {"range_check", "validate_x", "validate_y"}

\* the call has got past both validations
PassedValidation ==
    /\ Called
    /\ ~BeingValidated
    /\ ~(pc = "raised" /\ error \in ValidationErrors)

\* a field named for one axis was supplied as the argument of the other
RolesExchanged ==
    \/ smoothing_coefficients_x.name = "smoothing_coefficient_y"
    \/ smoothing_coefficients_y.name = "smoothing_coefficient_x"

\* C28: in every process call that passes validation the field used for the
\* x passes is named as the x-coefficient field and the field used for the y
\* passes is named as the y-coefficient field; a call that supplies a y-named
\* field as the x argument, or an x-named field as the y argument, is
\* rejected with a validation error.
C28_RolesBoundByValidation ==
    /\ PassedValidation
       => /\ smoothing_coefficients_x.name = "smoothing_coefficient_x"
          /\ smoothing_coefficients_y.name = "smoothing_coefficient_y"
    /\ (Called /\ ~BeingValidated /\ RolesExchanged)
       => (pc = "raised" /\ error \in ValidationErrors /\ Untouched)

\* what holds of the code: a field supplied for the wrong axis passes its
\* validation, and the first pass that is given it fails to broadcast, so no
\* pass is ever completed with it
ExchangedRolesFailInFirstPass ==
    (Called /\ RolesExchanged /\ ~BeingValidated
        /\ ~HasValueAbove(smoothing_coefficients_x, 5)
        /\ ~HasValueAbove(smoothing_coefficients_y, 5)
        /\ ~Misnamed(smoothing_coefficients_x)
        /\ ~Misnamed(smoothing_coefficients_y))
    => /\ passes = <<>> \/ smoothing_coefficients_x.name = "smoothing_coefficient_x"
       /\ recursed_cube = <<>>
       /\ pc = "raised" => error \in {"broadcast", "type"}

(***************************************************************************)
(* C29, on the passes of process.                                          *)
(***************************************************************************)
\* the coefficient grid fits a pass along axis over the grid: equal extent
\* across the axis, length L - 1 along it, and every index the forward pass
\* (i - 1 for i in 1..L-1) and the backward pass (i in 0..L-2) read is an
\* index of the coefficient grid
IndexSafe(grid, coefficients, axis) ==
    LET L == Shape(grid, axis)
        K == Shape(coefficients, axis)
    IN /\ Shape(coefficients, 1 - axis) = Shape(grid, 1 - axis)
       /\ K = L - 1
       /\ \A i \in 1..(L - 1) : (i - 1) \in 0..(K - 1)
       /\ \A i \in 0..(L - 2) : i \in 0..(K - 1)

\* C29: for every slice of a call that passed validation and every
\* edge_width, the padded data grid and each padded coefficient grid have the
\* same extent on the axis orthogonal to the coefficient's recursion axis,
\* the coefficient grid has length L - 1 on the recursion axis, and every
\* coefficient index a pass reads lies within the coefficient grid.
C29_CoefficientIndicesInRange ==
    pc = "recursion"
    => /\ IndexSafe(output, smoothing_coefficients_x.data, x_index)
       /\ IndexSafe(output, smoothing_coefficients_y.data, y_index)

\* what holds of the code: the same for calls whose x argument is named as
\* the x field and whose y argument is named as the y field
IndicesInRangeForOwnRoles ==
    (pc = "recursion" /\ ~RolesExchanged)
    => /\ IndexSafe(output, smoothing_coefficients_x.data, x_index)
       /\ IndexSafe(output, smoothing_coefficients_y.data, y_index)
       /\ Shape(output, x_index) = Nx + 4 * edge_width
       /\ Shape(output, y_index) = Ny + 4 * edge_width

(***************************************************************************)
(* C30, on the steps of diamond_square: each assignment of a step is run   *)
(* again with its reads and its target looked at first.                    *)
(***************************************************************************)
\* what a checked run yields once a read or a write was found at fault
Faulted == <<>>

Assigned(grid, i, j) == At(grid, i, j) # INIT_VAL

\* the square-step assignment of the square (sq_x, sq_y): the four corners
\* it averages are assigned and the centre it writes is not
CheckedSquareAssign(grid, i_diff, sq_x, sq_y, random_num_lim, p) ==
    LET m == _get_midpoint_indices(i_diff, sq_x, sq_y)
    IN IF grid = Faulted THEN Faulted
       ELSE IF /\ Assigned(grid, m.x_lim_low, m.y_lim_low)
               /\ Assigned(grid, m.x_lim_low, m.y_lim_high)
               /\ Assigned(grid, m.x_lim_high, m.y_lim_low)
               /\ Assigned(grid, m.x_lim_high, m.y_lim_high)
               /\ ~Assigned(grid, m.midpoint_x, m.midpoint_y)
       THEN SquareAssign(grid, i_diff, sq_x, sq_y, random_num_lim, p)
       ELSE Faulted

\* the diamond-step assignment of the edge point (x, y): an assigned point
\* is left alone, and the four cells averaged for an unassigned one are
\* assigned
CheckedDiamondAssign(grid, x, y, i_diff, random_num_lim, p) ==
    IF grid = Faulted THEN Faulted
    ELSE IF Assigned(grid, x, y)
    THEN (IF DiamondAssign(grid, x, y, i_diff, random_num_lim, p) = grid
          THEN grid ELSE Faulted)
    ELSE LET q == _get_diamond_indices(x, y, i_diff, Rows(grid))
         IN IF /\ Assigned(grid, x, q.y_lower)
               /\ Assigned(grid, x, q.y_higher)
               /\ Assigned(grid, q.x_lower, y)
               /\ Assigned(grid, q.x_higher, y)
            THEN DiamondAssign(grid, x, y, i_diff, random_num_lim, p)
            ELSE Faulted

RECURSIVE CheckedSquareRow(_, _, _, _, _, _, _)
CheckedSquareRow(grid, n_sq, i_diff, random_num_lim, p, sq_x, sq_y) ==
    IF sq_y >= n_sq THEN grid
    ELSE CHOOSE done \in
             {CheckedSquareRow(g, n_sq, i_diff, random_num_lim, p, sq_x, sq_y + 1) :
                 g \in {CheckedSquareAssign(grid, i_diff, sq_x, sq_y,
                                            random_num_lim, p)}} : TRUE

RECURSIVE CheckedSquareLoop(_, _, _, _, _, _)
CheckedSquareLoop(grid, n_sq, i_diff, random_num_lim, p, sq_x) ==
    IF sq_x >= n_sq THEN grid
    ELSE CHOOSE done \in
             {CheckedSquareLoop(g, n_sq, i_diff, random_num_lim, p, sq_x + 1) :
                 g \in {CheckedSquareRow(grid, n_sq, i_diff, random_num_lim, p,
                                         sq_x, 0)}} : TRUE

CheckedDiamondSquare(grid, i_diff, random_num_lim, p, sq_x, sq_y) ==
    LET point == EdgePoints(i_diff, sq_x, sq_y)
        D(g, k) == CheckedDiamondAssign(g, point[k][1], point[k][2], i_diff,
                                        random_num_lim, p)
    IN CHOOSE done \in
           {D(g3, 4) : g3 \in {D(g2, 3) : g2 \in {D(g1, 2) :
               g1 \in {D(grid, 1)}}}} : TRUE

RECURSIVE CheckedDiamondRow(_, _, _, _, _, _, _)
CheckedDiamondRow(grid, n_sq, i_diff, random_num_lim, p, sq_x, sq_y) ==
    IF sq_y >= n_sq THEN grid
    ELSE CHOOSE done \in
             {CheckedDiamondRow(g, n_sq, i_diff, random_num_lim, p, sq_x, sq_y + 1) :
                 g \in {CheckedDiamondSquare(grid, i_diff, random_num_lim, p,
                                             sq_x, sq_y)}} : TRUE

RECURSIVE CheckedDiamondLoop(_, _, _, _, _, _)
CheckedDiamondLoop(grid, n_sq, i_diff, random_num_lim, p, sq_x) ==
    IF sq_x >= n_sq THEN grid
    ELSE CHOOSE done \in
             {CheckedDiamondLoop(g, n_sq, i_diff, random_num_lim, p, sq_x + 1) :
                 g \in {CheckedDiamondRow(grid, n_sq, i_diff, random_num_lim, p,
                                          sq_x, 0)}} : TRUE

CheckedSteps(grid, s, points, limit, p) ==
    LET n_sq   == Pow2(s)
        i_diff == (Rows(grid) - 1) \div (n_sq * 2)
    IN CHOOSE done \in
           {CheckedDiamondLoop(g, n_sq, i_diff, limit \div (points - s), p, 0) :
               g \in {CheckedSquareLoop(grid, n_sq, i_diff,
                                        limit \div (s + 1), p, 0)}} : TRUE

\* a step of the loop of diamond_square is about to run
StepPending == pc = "terrain_steps" /\ step < StepsOf(npoints)

\* C30: in every step of diamond_square each of the four cells averaged for
\* a new value (the corners of the square in the square step; the two
\* neighbours along the edge and the two square centres, wrapped around at
\* the border, in the diamond step) is already assigned and does not hold
\* INIT_VAL, and no assignment is made to a cell that is already assigned,
\* so that every cell is assigned once over the run.
C30_NoSentinelReadNoOverwrite ==
    StepPending =>
        \A p \in Patterns :
            LET checked == CheckedSteps(terrain, step, npoints, max_random, p)
            IN /\ checked # Faulted
               /\ checked = _diamond_square_steps(terrain, step, npoints,
                                                  max_random, p)
               /\ \A r \in DOMAIN terrain : \A c \in DOMAIN terrain[r] :
                      Assigned(terrain, r, c) => checked[r][c] = terrain[r][c]

\* the last of three steps is pending on the 9 x 9 terrain: its 16 squares
\* read centres across the border, and some cells are still unassigned
C30_Witness ==
    /\ StepPending
    /\ step = 2
    /\ Rows(terrain) = 9
    /\ ~Assigned(terrain, 0, 1)
    /\ Assigned(terrain, 0, 2)
    /\ CheckedSteps(terrain, step, npoints, max_random, 0) # Faulted
    /\ Assigned(CheckedSteps(terrain, step, npoints, max_random, 0), 0, 1)

====
